---- MODULE Spec2Model ----
(***************************************************************************)
(* A model of the Surplus preprocessor: tokenize, parse, transform,        *)
(* compile and the source-map extraction, with strings as sequences of     *)
(* one-character strings.                                                  *)
(***************************************************************************)
EXTENDS Integers, Sequences, FiniteSets, TLC

VARIABLES
    pc,      \* where preprocess stands
    str,     \* the source text given to preprocess
    opts,    \* params
    toks,    \* tokenize(str)
    ast,     \* parse(toks)
    err,     \* the Error thrown, msg "" when none
    closes,  \* history: how the parser saw each element end
    ast2,    \* transform(ast), the pipeline preprocess runs
    ast2ts,  \* transform(ast) of transform.ts
    ast3,    \* transform(ast2)
    ast3ts,  \* transform(ast2ts) of transform.ts
    code,    \* compile(ast2)
    out,     \* what preprocess returns
    rt,      \* the runtime: the element, the mixin object and the state of a run
    enc      \* a call of vlq: its argument and what it returned

vars == <<pc, str, opts, toks, ast, err, closes, ast2, ast2ts, ast3, ast3ts,
          code, out, rt, enc>>

(***************************************************************************)
(* Characters and the character classes of the regular expressions.        *)
(***************************************************************************)
LowerChars == {"a","b","c","d","e","f","g","h","i","j","k","l","m",
               "n","o","p","q","r","s","t","u","v","w","x","y","z"}
UpperChars == {"A","B","C","D","E","F","G","H","I","J","K","L","M",
               "N","O","P","Q","R","S","T","U","V","W","X","Y","Z"}
DigitChars == {"0","1","2","3","4","5","6","7","8","9"}
\* \w
WordChar(c) == c \in LowerChars \cup UpperChars \cup DigitChars \cup {"_"}
\* [a-zA-Z]
AlphaChar(c) == c \in LowerChars \cup UpperChars
\* \s
WsChar(c) == c \in {" ", "\n", "\t", "\r", "\f"}

NL == <<"\n">>
EMPTY == <<>>

\* the character at (1-based) position p of s, "" past the end
At(s, p) == IF p >= 1 /\ p <= Len(s) THEN s[p] ELSE ""
StartsAt(s, p, lit) ==
    /\ p + Len(lit) - 1 <= Len(s)
    /\ SubSeq(s, p, p + Len(lit) - 1) = lit
\* String.prototype.substr(n) / substring(n)
Drop(s, n) == IF n >= Len(s) THEN <<>> ELSE SubSeq(s, n + 1, Len(s))
Take(s, n) == IF n >= Len(s) THEN s ELSE SubSeq(s, 1, n)

RECURSIVE Flatten(_)
\* Array.prototype.join('') of a sequence of strings
Flatten(ss) == IF ss = <<>> THEN <<>> ELSE Head(ss) \o Flatten(Tail(ss))

\* String.prototype.toLowerCase on the letters of the model
LowerOf(c) ==
    CASE c = "A" -> "a" [] c = "B" -> "b" [] c = "C" -> "c" [] c = "D" -> "d"
      [] c = "E" -> "e" [] c = "F" -> "f" [] c = "G" -> "g" [] c = "H" -> "h"
      [] c = "I" -> "i" [] c = "J" -> "j" [] c = "K" -> "k" [] c = "L" -> "l"
      [] c = "M" -> "m" [] c = "N" -> "n" [] c = "O" -> "o" [] c = "P" -> "p"
      [] c = "Q" -> "q" [] c = "R" -> "r" [] c = "S" -> "s" [] c = "T" -> "t"
      [] c = "U" -> "u" [] c = "V" -> "v" [] c = "W" -> "w" [] c = "X" -> "x"
      [] c = "Y" -> "y" [] c = "Z" -> "z" [] OTHER -> c
toLowerCase(s) == [k \in 1..Len(s) |-> LowerOf(s[k])]

(***************************************************************************)
(* tokenize: String.prototype.match with the global regular expression     *)
(* rx.tokens.  The alternatives are tried in the order they are written;   *)
(* a character no alternative matches is skipped.                          *)
(***************************************************************************)
\* the characters excluded from the first alternative of the misc class
MiscExcluded == {"<", ">", "@", "=", "/", "(", ")", "[", "]", "{", "}",
                 "\"", "'", "\n", "*", "-"}

\* one iteration of the misc group at p: the number of characters it takes
MiscStep(s, p) ==
    LET c == At(s, p) IN
    IF c = "" THEN 0
    ELSE IF c \notin MiscExcluded THEN 1
    ELSE IF c = "-" /\ ~StartsAt(s, p, <<"-", "-", ">">>) THEN 1
    ELSE IF c = "/" /\ At(s, p + 1) \notin {">", "/", "*"} THEN 1
    ELSE IF c = "*" /\ At(s, p + 1) # "/" THEN 1
    ELSE IF /\ c = "<"
            /\ ~WordChar(At(s, p + 1))
            /\ ~(At(s, p + 1) = "/" /\ WordChar(At(s, p + 2)))
            /\ ~StartsAt(s, p, <<"<", "!", "-", "-">>)
         THEN (IF At(s, p + 1) = "/" THEN 2 ELSE 1)
    ELSE 0

RECURSIVE MiscLen(_, _)
MiscLen(s, p) ==
    LET n == MiscStep(s, p) IN IF n = 0 THEN 0 ELSE n + MiscLen(s, p + n)

\* the length of the token rx.tokens matches at p, 0 when it matches nothing
TokenLen(s, p) ==
    LET c == At(s, p) IN
    IF c = "<" /\ At(s, p + 1) = "/" /\ WordChar(At(s, p + 2)) THEN 2
    ELSE IF c = "<" /\ WordChar(At(s, p + 1)) THEN 1
    ELSE IF c = "/" /\ At(s, p + 1) = ">" THEN 2
    ELSE IF c = ">" THEN 1
    ELSE IF StartsAt(s, p, <<"<", "!", "-", "-">>) THEN 4
    ELSE IF StartsAt(s, p, <<"-", "-", ">">>) THEN 3
    ELSE IF c \in {"@", "="} THEN 1
    ELSE IF StartsAt(s, p, <<"{", ".", ".", ".">>) THEN 4
    ELSE IF c \in {")", "(", "[", "]", "{", "}", "\"", "'"} THEN 1
    ELSE IF c = "/" /\ At(s, p + 1) = "/" THEN 2
    ELSE IF c = "\n" THEN 1
    ELSE IF c = "/" /\ At(s, p + 1) = "*" THEN 2
    ELSE IF c = "*" /\ At(s, p + 1) = "/" THEN 2
    ELSE MiscLen(s, p)

RECURSIVE TokensFrom(_, _)
TokensFrom(s, p) ==
    IF p > Len(s) THEN <<>>
    ELSE LET n == TokenLen(s, p) IN
         IF n = 0 THEN TokensFrom(s, p + 1)
         ELSE <<SubSeq(s, p, p + n - 1)>> \o TokensFrom(s, p + n)

tokenize(s) == TokensFrom(s, 1)

(***************************************************************************)
(* AST nodes: one record shape per class, told apart by the field kind.    *)
(***************************************************************************)
CodeTopLevel(segments) == [kind |-> "CodeTopLevel", segments |-> segments]
CodeText(text, loc) == [kind |-> "CodeText", text |-> text, loc |-> loc]
EmbeddedCode(segments) == [kind |-> "EmbeddedCode", segments |-> segments]
HtmlElement(tag, properties, content, loc) ==
    [kind |-> "HtmlElement", tag |-> tag, properties |-> properties,
     content |-> content, loc |-> loc]
HtmlText(text) == [kind |-> "HtmlText", text |-> text]
HtmlComment(text) == [kind |-> "HtmlComment", text |-> text]
HtmlInsert(c, loc) == [kind |-> "HtmlInsert", code |-> c, loc |-> loc]
StaticProperty(name, value) ==
    [kind |-> "StaticProperty", name |-> name, value |-> value]
DynamicProperty(name, c, loc) ==
    [kind |-> "DynamicProperty", name |-> name, code |-> c, loc |-> loc]
Mixin(c, loc) == [kind |-> "Mixin", code |-> c, loc |-> loc]

(***************************************************************************)
(* parse: the recursive-descent parser.  The closure variables i, TOK,     *)
(* EOF, LINE, COL, POS are the fields of a parser state that every         *)
(* function takes and returns; a thrown Error is the field err, and once   *)
(* it is set no later step changes the state.  closes is a history field:  *)
(* for every element htmlElement returned, the index of the last token it  *)
(* consumed.                                                               *)
(***************************************************************************)
\* const v = ...; Body: binds a value that the rest of a function reads
Let(v, Body(_)) == Body(v)

NoLoc == [line |-> 0, col |-> 0, pos |-> 0]
\* an Error of parse: its message, its location and the excerpt of its text
NoErr == [msg |-> "", loc |-> NoLoc, frag |-> <<>>]

ParserInit(TOKS, o) ==
    [TOKS |-> TOKS, jsx |-> o.jsx, i |-> 1,
     EOF |-> (Len(TOKS) = 0),
     TOK |-> IF Len(TOKS) = 0 THEN <<>> ELSE TOKS[1],
     LINE |-> 0, COL |-> 0, POS |-> 0,
     err |-> NoErr, closes |-> <<>>]

Ok(s) == s.err.msg = ""
\* LOC, had it taken the column for the position
LOC_posIsCol(s) == [line |-> s.LINE, col |-> s.COL, pos |-> s.COL]
LOC(s) == [line |-> s.LINE, col |-> s.COL, pos |-> s.POS]
IS(s, t) == s.TOK = t
NOT(s, t) == s.TOK # t

\* String.prototype.substr(start, length)
substr(t, start, length) ==
    SubSeq(t, start + 1, IF start + length < Len(t) THEN start + length ELSE Len(t))
\* String.prototype.replace(c, ""), c a string of one character: the first
\* occurrence goes
replaceFirst(t, c) ==
    LET ks == {k \in 1..Len(t) : t[k] = c} IN
    IF ks = {} THEN t
    ELSE LET k == CHOOSE k \in ks : \A j \in ks : k <= j
         IN SubSeq(t, 1, k - 1) \o SubSeq(t, k + 1, Len(t))

\* the excerpt, had it been taken from the start of the text
ERR_frag_fromStart(TOKS, loc) ==
    replaceFirst(replaceFirst(substr(Flatten(TOKS), 0, 30), "\n"), "\r")

\* TOKS.join('').substr(loc.pos, 30).replace("\n", "").replace("\r", "")
ERR_frag(TOKS, loc) ==
    replaceFirst(replaceFirst(substr(Flatten(TOKS), loc.pos, 30), "\n"), "\r")

\* throw new Error(msg + frag), at loc or, with no loc given, at LOC()
ERR(s, msg, loc) ==
    IF Ok(s)
    THEN [s EXCEPT !.err = [msg |-> msg, loc |-> loc,
                            frag |-> ERR_frag(s.TOKS, loc)]]
    ELSE s

\* NEXT, had a line break not counted in POS
NEXT_lineKeepsPos(s) ==
    IF ~Ok(s) THEN s
    ELSE LET s1 == IF s.TOK = NL
                   THEN [s EXCEPT !.LINE = @ + 1, !.COL = 0]
                   ELSE IF s.TOK # <<>>
                   THEN [s EXCEPT !.COL = @ + Len(s.TOK),
                                  !.POS = @ + Len(s.TOK)]
                   ELSE s
         IN IF s.i + 1 > Len(s.TOKS)
            THEN [s1 EXCEPT !.i = s.i + 1, !.EOF = TRUE, !.TOK = <<>>]
            ELSE [s1 EXCEPT !.i = s.i + 1, !.TOK = s.TOKS[s.i + 1]]

NEXT(s) ==
    IF ~Ok(s) THEN s
    ELSE LET s1 == IF s.TOK = NL
                   THEN [s EXCEPT !.LINE = @ + 1, !.COL = 0, !.POS = @ + 1]
                   ELSE IF s.TOK # <<>>
                   THEN [s EXCEPT !.COL = @ + Len(s.TOK),
                                  !.POS = @ + Len(s.TOK)]
                   ELSE s
         IN IF s.i + 1 > Len(s.TOKS)
            THEN [s1 EXCEPT !.i = s.i + 1, !.EOF = TRUE, !.TOK = <<>>]
            ELSE [s1 EXCEPT !.i = s.i + 1, !.TOK = s.TOKS[s.i + 1]]

\* the length of the longest run of characters of t, starting at position p,
\* that all satisfy the class
PrefixLen(t, p, InClass(_)) ==
    LET stops == {k \in p..Len(t) : ~InClass(t[k])} IN
    IF p > Len(t) THEN 0
    ELSE IF stops = {} THEN Len(t) - p + 1
    ELSE (CHOOSE k \in stops : \A j \in stops : k <= j) - p

\* rx.identifier = /^[a-zA-Z]\w*/
identifierLen(t) ==
    IF Len(t) > 0 /\ AlphaChar(t[1]) THEN 1 + PrefixLen(t, 2, WordChar) ELSE 0
\* rx.leadingWs = /^\s+/
leadingWsLen(t) == PrefixLen(t, 1, WsChar)
\* rx.codeTerminator = /^[\s<>/,;)\]}]/
CodeTerminatorChar(c) == WsChar(c) \/ c \in {"<", ">", "/", ",", ";", ")", "]", "}"}
codeTerminator(t) == Len(t) > 0 /\ CodeTerminatorChar(t[1])
\* rx.codeContinuation = /^[^\s<>/,;)\]}]+/
CodeContinuationChar(c) == ~CodeTerminatorChar(c)
codeContinuationLen(t) == PrefixLen(t, 1, CodeContinuationChar)

RECURSIVE TrailingBackslashes(_)
TrailingBackslashes(t) ==
    IF Len(t) > 0 /\ t[Len(t)] = "\\"
    THEN 1 + TrailingBackslashes(SubSeq(t, 1, Len(t) - 1)) ELSE 0
\* rx.stringEscapedEnd = /[^\\](\\\\)*\\$/
stringEscapedEnd(t) ==
    LET n == TrailingBackslashes(t) IN n % 2 = 1 /\ Len(t) > n

\* the table parens
PARENS(s) ==
    CASE s.TOK = <<"(">> -> <<")">>
      [] s.TOK = <<"[">> -> <<"]">>
      [] s.TOK = <<"{">> -> <<"}">>
      [] s.TOK = <<"{", ".", ".", ".">> -> <<"}">>
      [] OTHER -> <<>>

\* SPLIT(rx), with n the length of the match of rx on TOK
SPLIT(s, n) ==
    IF ~Ok(s) \/ n = 0 THEN [s |-> s, v |-> <<>>]
    ELSE LET s1 == [s EXCEPT !.COL = @ + n, !.POS = @ + n,
                             !.TOK = Drop(s.TOK, n)]
         IN [s |-> IF s1.TOK = <<>> THEN NEXT(s1) ELSE s1,
             v |-> Take(s.TOK, n)]

RECURSIVE SKIPWS(_)
SKIPWS(s) ==
    IF ~Ok(s) THEN s
    ELSE IF IS(s, NL) THEN SKIPWS(NEXT(s))
    ELSE IF leadingWsLen(s.TOK) > 0 THEN SKIPWS(SPLIT(s, leadingWsLen(s.TOK)).s)
    ELSE s

RECURSIVE quotedStringLoop(_, _, _)
quotedStringLoop(s, quote, text) ==
    IF Ok(s) /\ ~s.EOF /\ (NOT(s, quote) \/ stringEscapedEnd(text))
    THEN quotedStringLoop(NEXT(s), quote, text \o s.TOK)
    ELSE [s |-> s, v |-> text]

quotedString(s) ==
    IF NOT(s, <<"'">>) /\ NOT(s, <<"\"">>)
    THEN [s |-> ERR(s, "not in quoted string", LOC(s)), v |-> <<>>]
    ELSE Let(quotedStringLoop(NEXT(s), s.TOK, s.TOK), LAMBDA r :
            IF r.s.EOF
            THEN [s |-> ERR(r.s, "unterminated string", LOC(s)), v |-> <<>>]
            ELSE [s |-> NEXT(r.s), v |-> r.v \o r.s.TOK])

RECURSIVE codeSingleLineCommentLoop(_, _)
codeSingleLineCommentLoop(s, text) ==
    IF Ok(s) /\ ~s.EOF /\ NOT(s, NL)
    THEN codeSingleLineCommentLoop(NEXT(s), text \o s.TOK)
    ELSE [s |-> s, v |-> text]

\* codeSingleLineComment, had it passed the newline without keeping it
codeSingleLineComment_dropNewline(s) ==
    IF NOT(s, <<"/", "/">>)
    THEN [s |-> ERR(s, "not in code comment", LOC(s)), v |-> <<>>]
    ELSE Let(codeSingleLineCommentLoop(s, <<>>), LAMBDA r :
            IF ~r.s.EOF THEN [s |-> NEXT(r.s), v |-> r.v] ELSE r)

codeSingleLineComment(s) ==
    IF NOT(s, <<"/", "/">>)
    THEN [s |-> ERR(s, "not in code comment", LOC(s)), v |-> <<>>]
    ELSE Let(codeSingleLineCommentLoop(s, <<>>), LAMBDA r :
            \* EOF within a code comment is ok
            IF ~r.s.EOF THEN [s |-> NEXT(r.s), v |-> r.v \o r.s.TOK] ELSE r)

RECURSIVE codeMultiLineCommentLoop(_, _)
codeMultiLineCommentLoop(s, text) ==
    IF Ok(s) /\ ~s.EOF /\ NOT(s, <<"*", "/">>)
    THEN codeMultiLineCommentLoop(NEXT(s), text \o s.TOK)
    ELSE [s |-> s, v |-> text]

codeMultiLineComment(s) ==
    IF NOT(s, <<"/", "*">>)
    THEN [s |-> ERR(s, "not in code comment", LOC(s)), v |-> <<>>]
    ELSE Let(codeMultiLineCommentLoop(s, <<>>), LAMBDA r :
            IF r.s.EOF
            THEN [s |-> ERR(r.s, "unterminated multi-line comment", LOC(s)),
                  v |-> <<>>]
            ELSE [s |-> NEXT(r.s), v |-> r.v \o r.s.TOK])

RECURSIVE htmlTextLoop(_, _)
htmlTextLoop(s, text) ==
    IF /\ Ok(s) /\ ~s.EOF /\ NOT(s, <<"<">>) /\ NOT(s, <<"<", "!", "-", "-">>)
       /\ (IF s.jsx THEN NOT(s, <<"{">>) ELSE NOT(s, <<"@">>))
       /\ NOT(s, <<"<", "/">>)
    THEN htmlTextLoop(NEXT(s), text \o s.TOK)
    ELSE [s |-> s, v |-> HtmlText(text)]

htmlText(s) == htmlTextLoop(s, <<>>)

RECURSIVE htmlCommentLoop(_, _)
htmlCommentLoop(s, text) ==
    IF Ok(s) /\ ~s.EOF /\ NOT(s, <<"-", "-", ">">>)
    THEN htmlCommentLoop(NEXT(s), text \o s.TOK)
    ELSE [s |-> s, v |-> text]

htmlComment(s) ==
    IF NOT(s, <<"<", "!", "-", "-">>)
    THEN [s |-> ERR(s, "not in HTML comment", LOC(s)), v |-> HtmlComment(<<>>)]
    ELSE Let(htmlCommentLoop(NEXT(s), <<>>), LAMBDA r :
            IF r.s.EOF
            THEN [s |-> ERR(r.s, "unterminated html comment", LOC(s)),
                  v |-> HtmlComment(<<>>)]
            ELSE [s |-> NEXT(r.s), v |-> HtmlComment(r.v)])

RECURSIVE htmlElement(_), htmlElementProperties(_, _), htmlElementContent(_, _)
RECURSIVE balancedParens(_, _, _, _), balancedParensLoop(_, _, _, _, _)
RECURSIVE embeddedCodeLoop(_, _, _, _)

\* balancedParens, had it passed the closing bracket without keeping it
balancedParens_dropClose(s, segments, text, loc) ==
    IF PARENS(s) = <<>>
    THEN [s |-> ERR(s, "not in parentheses", LOC(s)), segments |-> segments,
          text |-> text, loc |-> loc]
    ELSE Let(balancedParensLoop(NEXT(s), segments, text \o s.TOK, loc,
                                PARENS(s)),
             LAMBDA r :
                IF r.s.EOF
                THEN [r EXCEPT !.s = ERR(r.s, "unterminated parentheses",
                                         LOC(s))]
                ELSE [r EXCEPT !.s = NEXT(r.s)])

\* balancedParens mutates the loc object it is given: the record it returns
\* carries the segments, the text and that loc
balancedParens(s, segments, text, loc) ==
    IF PARENS(s) = <<>>
    THEN [s |-> ERR(s, "not in parentheses", LOC(s)), segments |-> segments,
          text |-> text, loc |-> loc]
    ELSE Let(balancedParensLoop(NEXT(s), segments, text \o s.TOK, loc,
                                PARENS(s)),
             LAMBDA r :
                IF r.s.EOF
                THEN [r EXCEPT !.s = ERR(r.s, "unterminated parentheses",
                                         LOC(s))]
                ELSE [r EXCEPT !.s = NEXT(r.s), !.text = r.text \o r.s.TOK])

balancedParensLoop(s, segments, text, loc, end) ==
    IF ~(Ok(s) /\ ~s.EOF /\ NOT(s, end))
    THEN [s |-> s, segments |-> segments, text |-> text, loc |-> loc]
    ELSE IF IS(s, <<"'">>) \/ IS(s, <<"\"">>)
    THEN Let(quotedString(s), LAMBDA r :
            balancedParensLoop(r.s, segments, text \o r.v, loc, end))
    ELSE IF IS(s, <<"/", "/">>)
    THEN Let(codeSingleLineComment(s), LAMBDA r :
            balancedParensLoop(r.s, segments, text \o r.v, loc, end))
    ELSE IF IS(s, <<"/", "*">>)
    THEN Let(codeMultiLineComment(s), LAMBDA r :
            balancedParensLoop(r.s, segments, text \o r.v, loc, end))
    ELSE IF IS(s, <<"<">>)
    THEN Let(htmlElement(s), LAMBDA r :
            balancedParensLoop(r.s,
                Append(IF text # <<>>
                       THEN Append(segments, CodeText(text, loc))
                       ELSE segments, r.v),
                <<>>, LOC(r.s), end))
    ELSE IF PARENS(s) # <<>>
    THEN Let(balancedParens(s, segments, text, loc), LAMBDA r :
            balancedParensLoop(r.s, r.segments, r.text, r.loc, end))
    ELSE balancedParensLoop(NEXT(s), segments, text \o s.TOK, loc, end)

embeddedCodeLoop(s, segments, text, loc) ==
    IF ~(Ok(s) /\ ~s.EOF /\ ~codeTerminator(s.TOK))
    THEN [s |-> s, segments |-> segments, text |-> text, loc |-> loc]
    ELSE IF PARENS(s) # <<>>
    THEN Let(balancedParens(s, segments, text, loc), LAMBDA r :
            embeddedCodeLoop(r.s, r.segments, r.text, r.loc))
    ELSE IF IS(s, <<"'">>) \/ IS(s, <<"\"">>)
    THEN Let(quotedString(s), LAMBDA r :
            embeddedCodeLoop(r.s, segments, text \o r.v, loc))
    ELSE Let(SPLIT(s, codeContinuationLen(s.TOK)), LAMBDA r :
            embeddedCodeLoop(r.s, segments, text \o r.v, loc))

embeddedCode(s) ==
    Let(embeddedCodeLoop(s, <<>>, <<>>, LOC(s)), LAMBDA r :
        IF r.text = <<>> /\ Len(r.segments) = 0
        THEN [s |-> ERR(r.s, "not in embedded code", LOC(s)),
              v |-> EmbeddedCode(<<>>)]
        ELSE [s |-> r.s,
              v |-> EmbeddedCode(IF r.text # <<>>
                                 THEN Append(r.segments, CodeText(r.text, r.loc))
                                 ELSE r.segments)])

\* remove opening '{' or '{...' of the first segment, adjusting code loc
\* accordingly
jsxStripPrefix(segments, prefixLength) ==
    [segments EXCEPT
        ![1] = CodeText(Drop(@.text, prefixLength),
                        [@.loc EXCEPT !.col = @ + prefixLength])]

jsxEmbeddedCode(s) ==
    IF NOT(s, <<"{">>) /\ NOT(s, <<"{", ".", ".", ".">>)
    THEN [s |-> ERR(s, "not at start of JSX embedded code", LOC(s)),
          v |-> EmbeddedCode(<<>>)]
    ELSE Let(balancedParens(s, <<>>, <<>>, LOC(s)), LAMBDA r :
            IF ~Ok(r.s) THEN [s |-> r.s, v |-> EmbeddedCode(<<>>)]
            ELSE [s |-> r.s,
                  v |-> EmbeddedCode(jsxStripPrefix(
                            \* remove closing '}'
                            Append(r.segments,
                                   CodeText(Take(r.text, Len(r.text) - 1),
                                            r.loc)),
                            Len(s.TOK)))])

htmlInsert(s) ==
    IF NOT(s, <<"@">>)
    THEN [s |-> ERR(s, "not at start of code insert", LOC(s)),
          v |-> HtmlInsert(EmbeddedCode(<<>>), LOC(s))]
    ELSE Let(embeddedCode(NEXT(s)), LAMBDA r :
            [s |-> r.s, v |-> HtmlInsert(r.v, LOC(s))])

jsxHtmlInsert(s) ==
    Let(jsxEmbeddedCode(s), LAMBDA r :
        [s |-> r.s, v |-> HtmlInsert(r.v, LOC(s))])

mixin(s) ==
    IF NOT(s, <<"@">>)
    THEN [s |-> ERR(s, "not at start of mixin", LOC(s)),
          v |-> Mixin(EmbeddedCode(<<>>), LOC(s))]
    ELSE Let(embeddedCode(NEXT(s)), LAMBDA r :
            [s |-> r.s, v |-> Mixin(r.v, LOC(s))])

jsxMixin(s) ==
    IF NOT(s, <<"{", ".", ".", ".">>)
    THEN [s |-> ERR(s, "not at start of JSX mixin", LOC(s)),
          v |-> Mixin(EmbeddedCode(<<>>), LOC(s))]
    ELSE Let(jsxEmbeddedCode(s), LAMBDA r :
            [s |-> r.s, v |-> Mixin(r.v, LOC(s))])

\* the value of the property name, with the parser just past '=' and the
\* whitespace after it
propertyValue(s2, name, loc) ==
    IF IS(s2, <<"\"">>) \/ IS(s2, <<"'">>)
    THEN Let(quotedString(s2), LAMBDA r :
            [s |-> r.s, v |-> StaticProperty(name, r.v)])
    ELSE IF s2.jsx /\ IS(s2, <<"{">>)
    THEN Let(jsxEmbeddedCode(s2), LAMBDA r :
            [s |-> r.s, v |-> DynamicProperty(name, r.v, loc)])
    ELSE IF ~s2.jsx
    THEN Let(embeddedCode(s2), LAMBDA r :
            [s |-> r.s, v |-> DynamicProperty(name, r.v, loc)])
    ELSE [s |-> ERR(s2, "unexepected value for JSX property", LOC(s2)),
          v |-> StaticProperty(name, <<>>)]

property(s) ==
    IF identifierLen(s.TOK) = 0
    THEN [s |-> ERR(s, "not at start of property declaration", LOC(s)),
          v |-> StaticProperty(<<>>, <<>>)]
    ELSE Let(SPLIT(s, identifierLen(s.TOK)), LAMBDA n :
         Let(SKIPWS(n.s), LAMBDA s1 :
            propertyValue(IF NOT(s1, <<"=">>)
                          THEN ERR(s1, "expected equals sign after property name",
                                   LOC(s1))
                          ELSE SKIPWS(NEXT(s1)),
                          n.v, LOC(s))))

\* the loop that scans for properties until the end of the opening tag
htmlElementProperties(s, properties) ==
    IF ~(Ok(s) /\ ~s.EOF /\ NOT(s, <<">">>) /\ NOT(s, <<"/", ">">>))
    THEN [s |-> s, v |-> properties]
    ELSE Let(IF identifierLen(s.TOK) > 0 THEN property(s)
             ELSE IF ~s.jsx /\ IS(s, <<"@">>) THEN mixin(s)
             ELSE IF s.jsx /\ IS(s, <<"{", ".", ".", ".">>) THEN jsxMixin(s)
             ELSE [s |-> ERR(s, "unrecognized content in begin tag", LOC(s)),
                   v |-> StaticProperty(<<>>, <<>>)],
             LAMBDA r :
                htmlElementProperties(SKIPWS(r.s), Append(properties, r.v)))

\* the loop that reads the children up to the close tag
htmlElementContent(s, content) ==
    IF ~(Ok(s) /\ ~s.EOF /\ NOT(s, <<"<", "/">>))
    THEN [s |-> s, v |-> content]
    ELSE Let(IF IS(s, <<"<">>) THEN htmlElement(s)
             ELSE IF ~s.jsx /\ IS(s, <<"@">>) THEN htmlInsert(s)
             ELSE IF s.jsx /\ IS(s, <<"{">>) THEN jsxHtmlInsert(s)
             ELSE IF IS(s, <<"<", "!", "-", "-">>) THEN htmlComment(s)
             ELSE htmlText(s),
             LAMBDA r : htmlElementContent(r.s, Append(content, r.v)))

\* the comparison of the tags, had it been left out
closeTagMismatch_never(tag, closeTag) == FALSE

\* tag !== SPLIT(rx.identifier): the close tag names another identifier
closeTagMismatch(tag, closeTag) == tag # closeTag

\* the close tag of an element with content
htmlElementClose(s, tag, start) ==
    IF s.EOF THEN ERR(s, "element missing close tag", start)
    ELSE Let(NEXT(s), LAMBDA s1 :
         Let(SPLIT(s1, identifierLen(s1.TOK)), LAMBDA c :
            IF closeTagMismatch(tag, c.v)
            THEN ERR(c.s, "mismatched open and close tags", start)
            ELSE IF NOT(c.s, <<">">>)
            THEN ERR(c.s, "malformed close tag", LOC(c.s))
            ELSE c.s))

\* pass '>' or '/>' and return the element; the history field records the
\* token passed
htmlElementEnd(s3, tag, properties, content, start) ==
    [s |-> IF Ok(s3)
           THEN [NEXT(s3) EXCEPT !.closes =
                    Append(@, [tag |-> tag, pos |-> start.pos, last |-> s3.i,
                               n |-> Len(content)])]
           ELSE s3,
     v |-> HtmlElement(tag, properties, content, start)]

\* the element from the end of its opening tag on
htmlElementBody(s2, tag, properties, start) ==
    IF IS(s2, <<">">>)
    THEN Let(htmlElementContent(NEXT(s2), <<>>), LAMBDA c :
            htmlElementEnd(htmlElementClose(c.s, tag, start), tag, properties,
                           c.v, start))
    ELSE htmlElementEnd(s2, tag, properties, <<>>, start)

htmlElement(s) ==
    IF NOT(s, <<"<">>)
    THEN [s |-> ERR(s, "not at start of html element", LOC(s)),
          v |-> HtmlElement(<<>>, <<>>, <<>>, LOC(s))]
    ELSE Let(NEXT(s), LAMBDA s0 :
         Let(SPLIT(s0, identifierLen(s0.TOK)), LAMBDA t :
         Let(htmlElementProperties(
                IF t.v = <<>> THEN ERR(t.s, "bad element name", LOC(s))
                ELSE SKIPWS(t.s), <<>>),
             LAMBDA p :
                htmlElementBody(
                    IF p.s.EOF
                    THEN ERR(p.s, "unterminated start node", LOC(s)) ELSE p.s,
                    t.v, p.v, LOC(s)))))

RECURSIVE codeTopLevelLoop(_, _, _, _)
codeTopLevelLoop(s, segments, text, loc) ==
    IF ~(Ok(s) /\ ~s.EOF)
    THEN [s |-> s, segments |-> segments, text |-> text, loc |-> loc]
    ELSE IF IS(s, <<"<">>)
    THEN Let(htmlElement(s), LAMBDA r :
            codeTopLevelLoop(r.s,
                Append(IF text # <<>>
                       THEN Append(segments, CodeText(text, loc))
                       ELSE segments, r.v),
                <<>>, LOC(r.s)))
    ELSE IF IS(s, <<"\"">>) \/ IS(s, <<"'">>)
    THEN Let(quotedString(s), LAMBDA r :
            codeTopLevelLoop(r.s, segments, text \o r.v, loc))
    ELSE IF IS(s, <<"/", "/">>)
    THEN Let(codeSingleLineComment(s), LAMBDA r :
            codeTopLevelLoop(r.s, segments, text \o r.v, loc))
    ELSE IF IS(s, <<"/", "*">>)
    THEN Let(codeMultiLineComment(s), LAMBDA r :
            codeTopLevelLoop(r.s, segments, text \o r.v, loc))
    ELSE codeTopLevelLoop(NEXT(s), segments, text \o s.TOK, loc)

codeTopLevel(s) ==
    Let(codeTopLevelLoop(s, <<>>, <<>>, LOC(s)), LAMBDA r :
        [s |-> r.s,
         v |-> CodeTopLevel(IF r.text # <<>>
                            THEN Append(r.segments, CodeText(r.text, r.loc))
                            ELSE r.segments)])

\* parse returns the AST, or throws: the record holds the error (msg "" when
\* none was thrown), the AST, and the final parser state
parse(TOKS, o) ==
    Let(codeTopLevel(ParserInit(TOKS, o)), LAMBDA r :
        [err |-> r.s.err,
         ast |-> IF Ok(r.s) THEN r.v ELSE CodeTopLevel(<<>>),
         s |-> r.s])

(***************************************************************************)
(* Helpers shared by the transforms and the code generator.                *)
(***************************************************************************)
\* Array.prototype.filter with the (zero-based in the source) index: the
\* elements of seq whose one-based index satisfies Keep, in order
FilterIndex(seq, Keep(_)) ==
    LET idx == {i \in 1..Len(seq) : Keep(i)}
    IN [k \in 1..Cardinality(idx) |->
            seq[CHOOSE i \in idx : Cardinality({j \in idx : j <= i}) = k]]

RECURSIVE ReplaceEach(_, _, _)
\* String.prototype.replace(/c/g, by) for a one-character pattern c
ReplaceEach(t, c, by) ==
    IF t = <<>> THEN <<>>
    ELSE (IF Head(t) = c THEN by ELSE <<Head(t)>>) \o ReplaceEach(Tail(t), c, by)

RECURSIVE ReplaceNewlines(_)
\* String.prototype.replace(rx.newlines, "\\\n"), rx.newlines = /\r?\n/g
ReplaceNewlines(t) ==
    IF t = <<>> THEN <<>>
    ELSE IF Len(t) >= 2 /\ t[1] = "\r" /\ t[2] = "\n"
    THEN <<"\\", "\n">> \o ReplaceNewlines(Drop(t, 2))
    ELSE IF t[1] = "\n" THEN <<"\\", "\n">> \o ReplaceNewlines(Tail(t))
    ELSE <<Head(t)>> \o ReplaceNewlines(Tail(t))

codeStr(t) ==
    <<"'">>
    \o ReplaceNewlines(ReplaceEach(ReplaceEach(t, "\\", <<"\\", "\\">>),
                                   "'", <<"\\", "'">>))
    \o <<"'">>

\* rx.upperStart = /^[A-Z]/ and rx.lowerStart = /^[a-z]/
upperStart(t) == Len(t) > 0 /\ t[1] \in UpperChars
lowerStart(t) == Len(t) > 0 /\ t[1] \in LowerChars
\* rx.jsxEventProperty = /^on[A-Z]/
jsxEventProperty(t) ==
    Len(t) >= 3 /\ t[1] = "o" /\ t[2] = "n" /\ t[3] \in UpperChars
\* rx.ws = rx.allWs = /^\s*$/
allWs(t) == \A k \in 1..Len(t) : WsChar(t[k])
\* rx.hasNewline = /\n/
hasNewline(t) == \E k \in 1..Len(t) : t[k] = "\n"

(***************************************************************************)
(* transform, the pipeline of the bundled preprocessor (the JSX pipeline). *)
(* Each overlay rewrites the element and hands it to the overlay below     *)
(* (tx.HtmlElement.call(this, node)); Copy, the lowest, recurses through   *)
(* `this`, the whole composition.                                          *)
(***************************************************************************)
\* removeWhitespaceTextNodes, had it tested for a newline as the overlay of
\* transform.ts does
removeWhitespaceTextNodes_multiLine(node) ==
    HtmlElement(node.tag, node.properties,
        SelectSeq(node.content,
                  LAMBDA c : ~(c.kind = "HtmlText" /\ allWs(c.text)
                               /\ hasNewline(c.text))),
        node.loc)

removeWhitespaceTextNodes(node) ==
    LET nonWhitespaceContent ==
            SelectSeq(node.content,
                      LAMBDA c : ~(c.kind = "HtmlText" /\ allWs(c.text)))
    IN HtmlElement(node.tag, node.properties, nonWhitespaceContent, node.loc)

\* translateJSXPropertyName, had it no case for onDoubleClick
translateJSXPropertyName_lowerOnly(name) ==
    IF jsxEventProperty(name) THEN toLowerCase(name) ELSE name

translateJSXPropertyName(name) ==
    IF jsxEventProperty(name)
    THEN (IF name = <<"o","n","D","o","u","b","l","e","C","l","i","c","k">>
          THEN <<"o","n","d","b","l","c","l","i","c","k">>
          ELSE toLowerCase(name))
    ELSE name

translateJSXPropertyNames(node) ==
    IF lowerStart(node.tag)
    THEN HtmlElement(node.tag,
            [i \in 1..Len(node.properties) |->
                LET q == node.properties[i] IN
                IF q.kind = "DynamicProperty"
                THEN DynamicProperty(translateJSXPropertyName(q.name), q.code, q.loc)
                ELSE q],
            node.content, node.loc)
    ELSE node

TEXTCONTENT == <<"t","e","x","t","C","o","n","t","e","n","t">>

\* promoteInitialTextNodesToTextContentProperties, had it promoted nothing
promoteInitialTextNodesToTextContentProperties_never(node) == node

promoteInitialTextNodesToTextContentProperties(node) ==
    IF /\ lowerStart(node.tag)
       /\ Len(node.content) > 0
       /\ node.content[1].kind = "HtmlText"
    THEN HtmlElement(node.tag,
            Append(node.properties,
                   StaticProperty(TEXTCONTENT, codeStr(node.content[1].text))),
            Tail(node.content), node.loc)
    ELSE node

\* lastid, had it kept the first index of a name
FirstId(properties, name) ==
    LET idx == {i \in 1..Len(properties) :
                    properties[i].kind # "Mixin" /\ properties[i].name = name}
    IN CHOOSE i \in idx : \A j \in idx : i <= j

\* lastid[name]: the index of the last property of that name that is no Mixin
LastId(properties, name) ==
    LET idx == {i \in 1..Len(properties) :
                    properties[i].kind # "Mixin" /\ properties[i].name = name}
    IN CHOOSE i \in idx : \A j \in idx : j <= i

removeDuplicateProperties(node) ==
    LET properties == node.properties
        uniqueProperties ==
            FilterIndex(properties,
                LAMBDA i : \/ properties[i].kind = "Mixin"
                           \/ LastId(properties, properties[i].name) = i)
    IN HtmlElement(node.tag, uniqueProperties, node.content, node.loc)

RECURSIVE tf_HtmlElement(_), tf_CodeSegments(_)

tf_EmbeddedCode(node) == EmbeddedCode(tf_CodeSegments(node.segments))

\* Copy.HtmlElement, with `this` the composed transform
Copy_HtmlElement(node) ==
    HtmlElement(node.tag,
        [i \in 1..Len(node.properties) |->
            LET q == node.properties[i] IN
            IF q.kind = "StaticProperty" THEN q
            ELSE IF q.kind = "DynamicProperty"
            THEN DynamicProperty(q.name, tf_EmbeddedCode(q.code), q.loc)
            ELSE Mixin(tf_EmbeddedCode(q.code), q.loc)],
        [i \in 1..Len(node.content) |->
            LET c == node.content[i] IN
            IF c.kind = "HtmlComment" THEN c
            ELSE IF c.kind = "HtmlText" THEN c
            ELSE IF c.kind = "HtmlInsert"
            THEN HtmlInsert(tf_EmbeddedCode(c.code), c.loc)
            ELSE tf_HtmlElement(c)],
        node.loc)

\* tf.HtmlElement, had duplicates been removed before texts are promoted
tf_HtmlElement_dedupeFirst(node) ==
    Copy_HtmlElement(
        promoteInitialTextNodesToTextContentProperties(
            removeDuplicateProperties(
                translateJSXPropertyNames(
                    removeWhitespaceTextNodes(node)))))

\* tf.HtmlElement: the overlays in the order they are applied, then Copy
tf_HtmlElement(node) ==
    Copy_HtmlElement(
        removeDuplicateProperties(
            promoteInitialTextNodesToTextContentProperties(
                translateJSXPropertyNames(
                    removeWhitespaceTextNodes(node)))))

tf_CodeSegments(segments) ==
    [i \in 1..Len(segments) |->
        IF segments[i].kind = "CodeText" THEN segments[i]
        ELSE tf_HtmlElement(segments[i])]

transform(node) == CodeTopLevel(tf_CodeSegments(node.segments))

(***************************************************************************)
(* transform of transform.ts (the native pipeline of the claims): the      *)
(* JSXElement / JSXText family, on the same records (JSXElement is the     *)
(* record HtmlElement, JSXText the record HtmlText, JSXSpreadProperty the  *)
(* record Mixin; references and functions, which every overlay passes on   *)
(* unchanged, are left out).                                               *)
(***************************************************************************)
PRE == <<"p", "r", "e">>

\* JSXElement.isHTML (AST.ts): the Html dialect, a tag that does not start
\* with an uppercase letter
isHTML(node) == ~upperStart(node.tag)

removeMultiLineWhitespaceTextNodes(node) ==
    IF node.tag # PRE
    THEN HtmlElement(node.tag, node.properties,
            SelectSeq(node.content,
                LAMBDA c : ~(c.kind = "HtmlText" /\ allWs(c.text)
                                                 /\ hasNewline(c.text))),
            node.loc)
    ELSE node

RECURSIVE ReplaceExtraWs(_)
\* String.prototype.replace(rx.extraWs, ' '), rx.extraWs = /\s\s+/g
ReplaceExtraWs(t) ==
    IF t = <<>> THEN <<>>
    ELSE LET n == PrefixLen(t, 1, WsChar) IN
         IF n >= 2 THEN <<" ">> \o ReplaceExtraWs(Drop(t, n))
         ELSE <<Head(t)>> \o ReplaceExtraWs(Tail(t))

collapseExtraWhitespaceInTextNodes(node) ==
    IF node.tag # PRE
    THEN HtmlElement(node.tag, node.properties,
            [i \in 1..Len(node.content) |->
                LET c == node.content[i] IN
                IF c.kind = "HtmlText" THEN HtmlText(ReplaceExtraWs(c.text))
                ELSE c],
            node.loc)
    ELSE node

DigitVal(c) ==
    CASE c = "0" -> 0 [] c = "1" -> 1 [] c = "2" -> 2 [] c = "3" -> 3
      [] c = "4" -> 4 [] c = "5" -> 5 [] c = "6" -> 6 [] c = "7" -> 7
      [] c = "8" -> 8 [] c = "9" -> 9
      [] c \in {"a", "A"} -> 10 [] c \in {"b", "B"} -> 11
      [] c \in {"c", "C"} -> 12 [] c \in {"d", "D"} -> 13
      [] c \in {"e", "E"} -> 14 [] c \in {"f", "F"} -> 15

RECURSIVE parseInt(_, _)
\* parseInt(digits, radix) of a non-empty string of digits of the radix
parseInt(t, radix) ==
    IF t = <<>> THEN 0
    ELSE parseInt(SubSeq(t, 1, Len(t) - 1), radix) * radix + DigitVal(t[Len(t)])

HexChar(c) == c \in DigitChars \cup {"a","b","c","d","e","f","A","B","C","D","E","F"}
DecChar(c) == c \in DigitChars

\* String.fromCharCode on the codes the model's texts name (others: "?")
fromCharCode(n) ==
    CASE n = 10 -> "\n" [] n = 32 -> " " [] n = 35 -> "#" [] n = 38 -> "&"
      [] n = 59 -> ";" [] n = 60 -> "<" [] n = 65 -> "A" [] n = 97 -> "a"
      [] OTHER -> "?"

\* the table HtmlEntites of domRef.ts: the named entities (<<>>: not in it)
HtmlEntites(named) ==
    CASE named = <<"a","m","p">> -> <<"&">>
      [] named = <<"l","t">> -> <<"<">>
      [] named = <<"g","t">> -> <<">">>
      [] named = <<"q","u","o","t">> -> <<"\"">>
      [] OTHER -> <<>>

\* the match of rx.htmlEntity = /(?:&#(\d+);|&#x([\da-fA-F]+);|&(\w+);)/ at
\* the head of t: its length (0: no match) and its replacement
HtmlEntityAt(t) ==
    IF Len(t) = 0 \/ t[1] # "&" THEN [n |-> 0, by |-> <<>>]
    ELSE LET dec == PrefixLen(t, 3, DecChar)
             hex == PrefixLen(t, 4, HexChar)
             named == PrefixLen(t, 2, WordChar)
         IN IF At(t, 2) = "#" /\ dec > 0 /\ At(t, 3 + dec) = ";"
            THEN [n |-> 3 + dec,
                  by |-> <<fromCharCode(parseInt(SubSeq(t, 3, 2 + dec), 10))>>]
            ELSE IF At(t, 2) = "#" /\ At(t, 3) = "x" /\ hex > 0
                      /\ At(t, 4 + hex) = ";"
            THEN [n |-> 4 + hex,
                  by |-> <<fromCharCode(parseInt(SubSeq(t, 4, 3 + hex), 16))>>]
            ELSE IF named > 0 /\ At(t, 2 + named) = ";"
            THEN [n |-> 2 + named,
                  by |-> IF HtmlEntites(SubSeq(t, 2, 1 + named)) # <<>>
                         THEN HtmlEntites(SubSeq(t, 2, 1 + named))
                         ELSE SubSeq(t, 1, 2 + named)]
            ELSE [n |-> 0, by |-> <<>>]

RECURSIVE ReplaceHtmlEntities(_)
ReplaceHtmlEntities(t) ==
    IF t = <<>> THEN <<>>
    ELSE LET m == HtmlEntityAt(t) IN
         IF m.n > 0 THEN m.by \o ReplaceHtmlEntities(Drop(t, m.n))
         ELSE <<Head(t)>> \o ReplaceHtmlEntities(Tail(t))

translateHTMLEntitiesToUnicodeInTextNodes(node) ==
    HtmlText(ReplaceHtmlEntities(node.text))

\* this.JSXText: the one overlay on JSXText, then Copy.JSXText (the identity)
tfts_JSXText(node) == translateHTMLEntitiesToUnicodeInTextNodes(node)

translateJSXPropertyNames_ts(node) ==
    IF isHTML(node)
    THEN HtmlElement(node.tag,
            [i \in 1..Len(node.properties) |->
                LET q == node.properties[i] IN
                IF q.kind = "DynamicProperty"
                THEN DynamicProperty(translateJSXPropertyName(q.name), q.code, q.loc)
                ELSE q],
            node.content, node.loc)
    ELSE node

promoteTextOnlyContentsToTextContentProperties(node) ==
    IF /\ isHTML(node)
       /\ Len(node.content) = 1
       /\ node.content[1].kind = "HtmlText"
    THEN HtmlElement(node.tag,
            Append(node.properties,
                   StaticProperty(TEXTCONTENT,
                                  codeStr(tfts_JSXText(node.content[1]).text))),
            <<>>, node.loc)
    ELSE node

\* lastid[name] over the properties that are neither spread nor style
LastId_ts(properties, name) ==
    LET idx == {i \in 1..Len(properties) :
                    /\ properties[i].kind \notin {"Mixin", "StyleProperty"}
                    /\ properties[i].name = name}
    IN CHOOSE i \in idx : \A j \in idx : j <= i

removeDuplicateProperties_ts(node) ==
    LET properties == node.properties
        uniqueProperties ==
            FilterIndex(properties,
                LAMBDA i : \/ properties[i].kind \in {"Mixin", "StyleProperty"}
                           \/ LastId_ts(properties, properties[i].name) = i)
    IN HtmlElement(node.tag, uniqueProperties, node.content, node.loc)

RECURSIVE tfts_JSXElement(_), tfts_CodeSegments(_)

tfts_EmbeddedCode(node) == EmbeddedCode(tfts_CodeSegments(node.segments))

\* Copy.JSXElement of AST.ts: the identity traversal, through `this`
Copy_JSXElement(node) ==
    HtmlElement(node.tag,
        [i \in 1..Len(node.properties) |->
            LET q == node.properties[i] IN
            IF q.kind = "StaticProperty" THEN q
            ELSE IF q.kind = "DynamicProperty"
            THEN DynamicProperty(q.name, tfts_EmbeddedCode(q.code), q.loc)
            ELSE Mixin(tfts_EmbeddedCode(q.code), q.loc)],
        [i \in 1..Len(node.content) |->
            LET c == node.content[i] IN
            IF c.kind = "HtmlComment" THEN c
            ELSE IF c.kind = "HtmlText" THEN tfts_JSXText(c)
            ELSE IF c.kind = "HtmlInsert"
            THEN HtmlInsert(tfts_EmbeddedCode(c.code), c.loc)
            ELSE tfts_JSXElement(c)],
        node.loc)

\* tf.JSXElement of transform.ts
tfts_JSXElement(node) ==
    Copy_JSXElement(
        removeDuplicateProperties_ts(
            promoteTextOnlyContentsToTextContentProperties(
                translateJSXPropertyNames_ts(
                    collapseExtraWhitespaceInTextNodes(
                        removeMultiLineWhitespaceTextNodes(node))))))

tfts_CodeSegments(segments) ==
    [i \in 1..Len(segments) |->
        IF segments[i].kind = "CodeText" THEN segments[i]
        ELSE tfts_JSXElement(segments[i])]

\* transform of transform.ts: tf.Program(node)
transform_ts(node) == CodeTopLevel(tfts_CodeSegments(node.segments))

(***************************************************************************)
(* compile: the code generator.  A location mark is the string             *)
(* "\u0000" + line + "," + col + "\u0000"; the character U+0000 is the     *)
(* element NUL.  A TypeError thrown while generating is the element        *)
(* THROWN, which no string holds otherwise: compile reports it.            *)
(***************************************************************************)
NUL == "NUL"
THROWN == "TypeError"

RECURSIVE NumStr(_)
\* the decimal digits of a natural number (Number.prototype.toString)
NumStr(n) ==
    LET d == <<"0","1","2","3","4","5","6","7","8","9">>[(n % 10) + 1]
    IN IF n < 10 THEN <<d>> ELSE NumStr(n \div 10) \o <<d>>

RECURSIVE Join(_, _)
\* Array.prototype.join(sep)
Join(ss, sep) ==
    IF ss = <<>> THEN <<>>
    ELSE IF Len(ss) = 1 THEN ss[1]
    ELSE ss[1] \o sep \o Join(Tail(ss), sep)

RECURSIVE SplitLines(_)
\* String.prototype.split('\n')
SplitLines(t) ==
    LET nls == {k \in 1..Len(t) : t[k] = "\n"} IN
    IF nls = {} THEN <<t>>
    ELSE LET k == CHOOSE k \in nls : \A j \in nls : k <= j
         IN <<SubSeq(t, 1, k - 1)>> \o SplitLines(Drop(t, k))

\* String.prototype.trim
trim(t) ==
    LET keep == {k \in 1..Len(t) : ~WsChar(t[k])} IN
    IF keep = {} THEN <<>>
    ELSE SubSeq(t, CHOOSE k \in keep : \A j \in keep : k <= j,
                   CHOOSE k \in keep : \A j \in keep : j <= k)

locationMark(loc) ==
    <<NUL>> \o NumStr(loc.line) \o <<",">> \o NumStr(loc.col) \o <<NUL>>

markLoc(t, loc, o) == IF o.sourcemap # "" THEN locationMark(loc) \o t ELSE t

markBlockLocs(t, loc, o) ==
    IF o.sourcemap = "" THEN t
    ELSE LET lines == SplitLines(t)
             marked == [i \in 1..Len(lines) |->
                          IF i = 1 THEN lines[i]
                          ELSE locationMark([line |-> loc.line + (i - 1),
                                             col |-> 0, pos |-> 0])
                               \o lines[i]]
         IN locationMark(loc) \o Join(marked, NL)

\* rx.hasParen = /\(/
hasParen(t) == \E k \in 1..Len(t) : t[k] = "("
\* rx.loneFunction = /^function |^\(\w*\) =>|^\w+ =>/
loneFunction(t) ==
    \/ StartsAt(t, 1, <<"f","u","n","c","t","i","o","n"," ">>)
    \/ (At(t, 1) = "(" /\ StartsAt(t, 2 + PrefixLen(t, 2, WordChar), <<")"," ","=",">">>))
    \/ (PrefixLen(t, 1, WordChar) > 0
            /\ StartsAt(t, 1 + PrefixLen(t, 1, WordChar), <<" ","=",">">>))

\* the heuristic without its lone-function exception
noApparentSignals_parenOnly(t) == ~hasParen(t)
noApparentSignals(t) == ~hasParen(t) \/ loneFunction(t)

\* rx.indent = /\n(?=[^\n]+$)([ \t]*)/: the blanks that open the last line,
\* when a newline precedes it and it is not empty
indent(previousCode) ==
    LET nls == {k \in 1..Len(previousCode) : previousCode[k] = "\n"} IN
    IF nls = {} THEN <<>>
    ELSE LET k == CHOOSE k \in nls : \A j \in nls : j <= k
             n == PrefixLen(previousCode, k + 1, LAMBDA c : c \in {" ", "\t"})
         IN IF k = Len(previousCode) THEN <<>>
            ELSE SubSeq(previousCode, k + 1, k + n)

SP4 == <<" ", " ", " ", " ">>
CRLF == <<"\r", "\n">>

\* an assignment that drops the keys the object had
SetKey_onlyLast(obj, name, value) == <<[name |-> name, value |-> value]>>

\* obj[name] = value on an object literal kept as its list of keys in
\* insertion order: an existing key keeps its place
SetKey(obj, name, value) ==
    IF \E k \in 1..Len(obj) : obj[k].name = name
    THEN [k \in 1..Len(obj) |->
            IF obj[k].name = name THEN [name |-> name, value |-> value]
            ELSE obj[k]]
    ELSE Append(obj, [name |-> name, value |-> value])

\* a property group of a SubComponent: the string of a mixin, or an object
StrGroup(t) == [str |-> TRUE, text |-> t, obj |-> <<>>]
ObjGroup(obj) == [str |-> FALSE, text |-> <<>>, obj |-> obj]

emitSubComponent(expr, ind) ==
    LET nl == CRLF \o ind
        nli == nl \o SP4
        nlii == nli \o SP4
        \* convert children to an array expression
        children == IF Len(expr.children) = 0 THEN <<"[","]">>
                    ELSE <<"[">> \o nlii
                         \o Join(expr.children, <<",">> \o nlii) \o nli
                         \o <<"]">>
        childrenKey == <<"c","h","i","l","d","r","e","n">>
        \* add children property to first property object
        groups == IF Len(expr.properties) > 0 /\ expr.properties[1].str
                  THEN <<ObjGroup(<<[name |-> childrenKey, value |-> children]>>)>>
                       \o expr.properties
                  ELSE [expr.properties EXCEPT ![1] =
                            ObjGroup(SetKey(@.obj, childrenKey, children))]
        \* convert property objects to object expressions
        properties ==
            [g \in 1..Len(groups) |->
                IF groups[g].str THEN groups[g].text
                ELSE <<"{">>
                     \o Join([k \in 1..Len(groups[g].obj) |->
                                nli \o groups[g].obj[k].name \o <<":"," ">>
                                    \o groups[g].obj[k].value], <<",">>)
                     \o nl \o <<"}">>]
        needLibrary == Len(groups) > 1 \/ groups[1].str
    IN \* properties0 is undefined when there is no property:
       \* properties0['children'] = children throws a TypeError
       IF Len(expr.properties) = 0 THEN <<THROWN>>
       ELSE IF needLibrary
       THEN <<"S","u","r","p","l","u","s",".","s","u","b","c","o","m","p","o","n","e","n","t","(">> \o expr.name \o <<","," ","[">>
            \o Join(properties, <<","," ">>) \o <<"]",")">>
       ELSE expr.name \o <<"(">> \o properties[1] \o <<")">>

\* addId, addStatement, addComputation on the record of the three lists
addId(D, parent, tag, n) ==
    LET id == IF parent = <<>> THEN <<"_","_">>
              ELSE parent
                   \o (IF parent[Len(parent)] = "_" THEN <<>> ELSE <<"_">>)
                   \o tag \o NumStr(n + 1)
    IN [D |-> [D EXCEPT !.ids = Append(@, id)], id |-> id]
addStatement(D, stmt) == [D EXCEPT !.statements = Append(@, stmt)]
addComputation(D, body, stateVar, seed, loc) ==
    [D EXCEPT !.computations =
        Append(@, [statements |-> body, loc |-> loc, stateVar |-> stateVar,
                   seed |-> seed])]

buildStaticProperty(node, id) ==
    id \o <<".">> \o node.name \o <<" ","="," ">> \o node.value \o <<";">>
buildDynamicProperty(node, id, expr) ==
    IF node.name = <<"r","e","f">>
    THEN expr \o <<" ","="," ">> \o id \o <<";">>
    ELSE id \o <<".">> \o node.name \o <<" ","="," ">> \o expr \o <<";">>
\* buildMixin: the statement, and the lists after its addId
buildMixin(D, expr, id, n, last, final) ==
    Let(IF last THEN [D |-> D, id |-> <<"_","_","s","t","a","t","e">>]
        ELSE addId(D, id, <<"m","i","x","i","n">>, n),
        LAMBDA a :
            [D |-> a.D,
             stmt |-> (IF last /\ final THEN <<>> ELSE a.id \o <<" ","="," ">>)
                      \o <<"S","u","r","p","l","u","s",".","s","p","r","e","a","d","(">> \o expr \o <<","," ">> \o id
                      \o <<","," ">> \o a.id \o <<")",";">>])

emitDOMExpression(D, ind, o) ==
    LET nl == CRLF \o ind
        nli == nl \o SP4
        nlii == nli \o SP4
        comps ==
            [c \in 1..Len(D.computations) |->
                LET comp == D.computations[c]
                    n == Len(comp.statements)
                    statements ==
                        IF comp.stateVar # <<>>
                        THEN [comp.statements EXCEPT ![n] = <<"r","e","t","u","r","n"," ">> \o @]
                        ELSE comp.statements
                    body == IF n = 1 THEN <<" ">> \o statements[1] \o <<" ">>
                            ELSE nlii \o Join(statements, nlii) \o nlii
                IN markLoc(<<"S","u","r","p","l","u","s",".","S","(","f","u","n","c","t","i","o","n"," ","(">> \o comp.stateVar \o <<")"," ","{">>
                           \o body \o <<"}">>
                           \o (IF comp.seed # <<>> THEN <<","," ">> \o comp.seed
                               ELSE <<>>)
                           \o <<")",";">>,
                           comp.loc, o)]
    IN <<"(","f","u","n","c","t","i","o","n"," ","(",")"," ","{">> \o nli
       \o <<"v","a","r"," ">> \o Join(D.ids, <<","," ">>) \o <<";">> \o nli
       \o Join(D.statements, nli) \o nli
       \o Join(comps, nli) \o nli
       \o <<"r","e","t","u","r","n"," ","_","_",";">> \o nl
       \o <<"}",")","(",")">>

RECURSIVE compileSegmentsFrom(_, _, _, _), compileHtmlElement(_, _, _)
RECURSIVE buildHtmlElement(_, _, _, _, _), buildChildren(_, _, _, _, _)
RECURSIVE buildProperties(_, _, _, _, _, _, _, _, _)

\* node.segments.reduce((res, s) => res + compileSegment(s, res), "")
compileSegmentsFrom(segments, k, res, o) ==
    IF k > Len(segments) THEN res
    ELSE compileSegmentsFrom(segments, k + 1,
            res \o (IF segments[k].kind = "CodeText"
                    THEN markBlockLocs(segments[k].text, segments[k].loc, o)
                    ELSE compileHtmlElement(segments[k], indent(res), o)),
            o)

compileSegments(node, o) == compileSegmentsFrom(node.segments, 1, <<>>, o)

buildSubComponent(node, o) ==
    LET \* group successive properties into property objects, but mixins
        \* stand alone
        Group(props, q) ==
            LET value == IF q.kind = "StaticProperty" THEN q.value
                         ELSE compileSegments(q.code, o)
            IN IF q.kind = "Mixin" THEN Append(props, StrGroup(value))
               ELSE IF Len(props) = 0 \/ props[Len(props)].str
               THEN Append(props, ObjGroup(<<[name |-> q.name, value |-> value]>>))
               ELSE [props EXCEPT ![Len(props)] =
                        ObjGroup(SetKey(@.obj, q.name, value))]
        GroupsUpTo[k \in 0..Len(node.properties)] ==
            IF k = 0 THEN <<>> ELSE Group(GroupsUpTo[k - 1], node.properties[k])
        children ==
            SelectSeq([i \in 1..Len(node.content) |->
                         LET c == node.content[i] IN
                         IF c.kind = "HtmlElement"
                         THEN compileHtmlElement(c, <<>>, o)
                         ELSE IF c.kind = "HtmlText" THEN codeStr(trim(c.text))
                         ELSE IF c.kind = "HtmlInsert"
                         THEN compileSegments(c.code, o)
                         ELSE <<"d","o","c","u","m","e","n","t",".","c","r","e","a","t","e","C","o","m","m","e","n","t","(">> \o codeStr(c.text)
                              \o <<")">>],
                      LAMBDA t : t # <<>>)
    IN [name |-> node.tag, properties |-> GroupsUpTo[Len(node.properties)],
        children |-> children]

\* buildHtmlInsert, had it not created the text node of the insert
buildHtmlInsert_noTextNode(D, node, parent, n, o) ==
    Let(addId(D, parent, <<"i","n","s","e","r","t">>, n), LAMBDA a :
        addComputation(a.D,
            <<<<"S","u","r","p","l","u","s",".","i","n","s","e","r","t","(","r","a","n","g","e",","," ">> \o compileSegments(node.code, o)
              \o <<")",";">>>>,
            <<"r","a","n","g","e">>,
            <<"{"," ","s","t","a","r","t",":"," ">> \o a.id \o <<","," ","e","n","d",":"," ">> \o a.id \o <<" ","}">>,
            node.loc))

buildHtmlInsert(D, node, parent, n, o) ==
    Let(addId(D, parent, <<"i","n","s","e","r","t">>, n), LAMBDA a :
        addComputation(
            addStatement(a.D, a.id \o <<" ","="," ","S","u","r","p","l","u","s",".","c","r","e","a","t","e","T","e","x","t","N","o","d","e","(","'","'",","," ">>
                              \o parent \o <<")">>),
            <<<<"S","u","r","p","l","u","s",".","i","n","s","e","r","t","(","r","a","n","g","e",","," ">> \o compileSegments(node.code, o)
              \o <<")",";">>>>,
            <<"r","a","n","g","e">>,
            <<"{"," ","s","t","a","r","t",":"," ">> \o a.id \o <<","," ","e","n","d",":"," ">> \o a.id \o <<" ","}">>,
            node.loc))

buildHtmlComment(D, node, parent) ==
    addStatement(D, <<"S","u","r","p","l","u","s",".","c","r","e","a","t","e","C","o","m","m","e","n","t","(">> \o codeStr(node.text)
                    \o <<","," ">> \o parent \o <<")">>)
buildHtmlText(D, node, parent, n) ==
    addStatement(D, <<"S","u","r","p","l","u","s",".","c","r","e","a","t","e","T","e","x","t","N","o","d","e","(">> \o codeStr(node.text)
                    \o <<","," ">> \o parent \o <<")">>)

\* properties.map(...): the statements of the properties from index k on,
\* with the ids buildMixin adds on the way
buildProperties(D, properties, exprs, k, id, n, lastMixin, finalMixin, stmts) ==
    IF k > Len(properties) THEN [D |-> D, stmts |-> stmts]
    ELSE LET q == properties[k] IN
         IF q.kind = "StaticProperty"
         THEN buildProperties(D, properties, exprs, k + 1, id, n, lastMixin,
                    finalMixin, Append(stmts, buildStaticProperty(q, id)))
         ELSE IF q.kind = "DynamicProperty"
         THEN buildProperties(D, properties, exprs, k + 1, id, n, lastMixin,
                    finalMixin,
                    Append(stmts, buildDynamicProperty(q, id, exprs[k])))
         ELSE Let(buildMixin(D, exprs[k], id, n, k = lastMixin, finalMixin),
                  LAMBDA m :
                    buildProperties(m.D, properties, exprs, k + 1, id, n,
                        lastMixin, finalMixin, Append(stmts, m.stmt)))

\* content.forEach((c, i) => buildChild(c, id, i)), from index k on
buildChildren(D, content, k, parent, o) ==
    IF k > Len(content) THEN D
    ELSE LET c == content[k]
             D1 == IF c.kind = "HtmlElement"
                   THEN buildHtmlElement(D, c, parent, k - 1, o)
                   ELSE IF c.kind = "HtmlComment"
                   THEN buildHtmlComment(D, c, parent)
                   ELSE IF c.kind = "HtmlText"
                   THEN buildHtmlText(D, c, parent, k - 1)
                   ELSE buildHtmlInsert(D, c, parent, k - 1, o)
         IN buildChildren(D1, content, k + 1, parent, o)

\* the index of lastMixin in properties, 0 when there is none (undefined)
lastMixinOf(properties) ==
    Let({i \in 1..Len(properties) : properties[i].kind = "Mixin"},
        LAMBDA mixins :
            IF mixins = {} THEN 0
            ELSE CHOOSE i \in mixins : \A j \in mixins : j <= i)

\* buildHtmlElementRest, had it added the computation before the children
buildHtmlElementRest_computationFirst(b, node, id, lastMixin, dynamic, o) ==
    IF ~dynamic
    THEN buildChildren([b.D EXCEPT !.statements = @ \o b.stmts],
                       node.content, 1, id, o)
    ELSE buildChildren(
            addComputation(b.D,
                IF lastMixin # 0 /\ lastMixin # Len(node.properties)
                THEN Append(b.stmts, <<"_","_","s","t","a","t","e">>) ELSE b.stmts,
                IF lastMixin # 0 THEN <<"_","_","s","t","a","t","e">> ELSE <<>>, <<>>, node.loc),
            node.content, 1, id, o)

\* buildHtmlElement from the statements of the properties on; b holds them
\* and the lists after buildMixin, lastMixin is the index of the last mixin
buildHtmlElementRest(b, node, id, lastMixin, dynamic, o) ==
    Let(buildChildren(IF ~dynamic
                      THEN [b.D EXCEPT !.statements = @ \o b.stmts] ELSE b.D,
                      node.content, 1, id, o),
        LAMBDA D3 :
            IF dynamic
            THEN addComputation(
                    IF Len(node.content) > 0 THEN addStatement(D3, NL) ELSE D3,
                    \* lastMixin && !finalMixin
                    IF lastMixin # 0 /\ lastMixin # Len(node.properties)
                    THEN Append(b.stmts, <<"_","_","s","t","a","t","e">>) ELSE b.stmts,
                    IF lastMixin # 0 THEN <<"_","_","s","t","a","t","e">> ELSE <<>>, <<>>, node.loc)
            ELSE D3)

\* buildHtmlElement of an Html tag, after addId returned a
buildHtmlElementProperties(a, node, parent, n, exprs, lastMixin, o) ==
    buildHtmlElementRest(
        buildProperties(
            addStatement(a.D,
                IF parent # <<>>
                THEN a.id \o <<" ","="," ","S","u","r","p","l","u","s",".","c","r","e","a","t","e","E","l","e","m","e","n","t","(","'">> \o node.tag
                     \o <<"'",","," ">> \o parent \o <<")">>
                ELSE a.id \o <<" ","="," ","S","u","r","p","l","u","s",".","c","r","e","a","t","e","R","o","o","t","E","l","e","m","e","n","t","(","'">> \o node.tag
                     \o <<"'",")">>),
            node.properties, exprs, 1, a.id, n, lastMixin,
            \* finalMixin = lastMixin === properties[properties.length - 1]
            lastMixin = Len(node.properties), <<>>),
        node, a.id, lastMixin,
        \* dynamic
        lastMixin # 0 \/ \E i \in 1..Len(exprs) : ~noApparentSignals(exprs[i]),
        o)

buildHtmlElement(D, node, parent, n, o) ==
    Let(addId(D, parent, node.tag, n), LAMBDA a :
        IF upperStart(node.tag)
        THEN buildHtmlInsert(a.D, HtmlInsert(EmbeddedCode(<<node>>), node.loc),
                             parent, n, o)
        ELSE buildHtmlElementProperties(a, node, parent, n,
                [i \in 1..Len(node.properties) |->
                    IF node.properties[i].kind = "StaticProperty" THEN <<>>
                    ELSE compileSegments(node.properties[i].code, o)],
                lastMixinOf(node.properties), o))

buildDOMExpression(top, o) ==
    buildHtmlElement([ids |-> <<>>, statements |-> <<>>, computations |-> <<>>],
                     top, <<>>, 0, o)

\* compileHtmlElement, had it no shortcut for an element with nothing in it
compileHtmlElement_noLeaf(node, ind, o) ==
    markLoc(IF upperStart(node.tag)
            THEN emitSubComponent(buildSubComponent(node, o), ind)
            ELSE emitDOMExpression(buildDOMExpression(node, o), ind, o),
            node.loc, o)

compileHtmlElement(node, ind, o) ==
    markLoc(IF upperStart(node.tag)
            THEN emitSubComponent(buildSubComponent(node, o), ind)
            ELSE IF Len(node.properties) = 0 /\ Len(node.content) = 0
            THEN \* optimization: don't need IIFE for simple single nodes
                 <<"S","u","r","p","l","u","s",".","c","r","e","a","t","e","R","o","o","t","E","l","e","m","e","n","t","(","\"">> \o node.tag \o <<"\"",")">>
            ELSE emitDOMExpression(buildDOMExpression(node, o), ind, o),
            node.loc, o)

\* compile returns the generated string, or throws
compile(ctl, o) ==
    Let(compileSegments(ctl, o), LAMBDA c :
        IF \E k \in 1..Len(c) : c[k] = THROWN
        THEN [err |-> THROWN, code |-> <<>>]
        ELSE [err |-> "", code |-> c])

(***************************************************************************)
(* sourcemap: extractMappings pulls the location marks out of the          *)
(* generated code and builds the mappings string.                          *)
(***************************************************************************)
vlqFinalDigits == <<"A","B","C","D","E","F","G","H","I","J","K","L","M","N","O","P","Q","R","S","T","U","V","W","X","Y","Z","a","b","c","d","e","f">>
vlqContinuationDigits == <<"g","h","i","j","k","l","m","n","o","p","q","r","s","t","u","v","w","x","y","z","0","1","2","3","4","5","6","7","8","9","+","/">>

RECURSIVE Base32(_)
\* num.toString(32) as the list of digit values, most significant first
Base32(num) ==
    IF num < 32 THEN <<num>> ELSE Append(Base32(num \div 32), num % 32)

\* vlq, had it kept the continuation digits in the order of the number
vlq_mostSignificantFirst(num) ==
    LET n == IF num < 0 THEN ((-num) * 2) + 1 ELSE num * 2
        numstr == Base32(n)
    IN Append([k \in 1..(Len(numstr) - 1) |->
                  vlqContinuationDigits[numstr[k + 1] + 1]],
              vlqFinalDigits[numstr[1] + 1])

vlq(num) ==
    LET \* sign bit in lsd
        n == IF num < 0 THEN ((-num) * 2) + 1 ELSE num * 2
        numstr == Base32(n)
        len == Len(numstr)
        \* continuation digits in reverse order, down to index 1 (0-based)
        cont == [k \in 1..(len - 1) |->
                    vlqContinuationDigits[numstr[len + 1 - k] + 1]]
    IN Append(cont, vlqFinalDigits[numstr[1] + 1])

\* rx.locs at position p: the length of the mark \u0000(\d+),(\d+)\u0000
\* that starts there, 0 when none does
MarkLenAt(s, p) ==
    IF At(s, p) # NUL THEN 0
    ELSE Let(PrefixLen(s, p + 1, DecChar), LAMBDA d1 :
         Let(PrefixLen(s, p + 2 + d1, DecChar), LAMBDA d2 :
            IF d1 > 0 /\ At(s, p + 1 + d1) = "," /\ d2 > 0
               /\ At(s, p + 2 + d1 + d2) = NUL
            THEN d1 + d2 + 3 ELSE 0))

\* the bookkeeping of a mark that is removed, not replaced by a comment
NextLineMarksLength_removed(lineMarksLength, mark) ==
    lineMarksLength + Len(mark)

\* lineMarksLength -= 2: the comment that replaces a mark is 2 longer
NextLineMarksLength(lineMarksLength, mark) == lineMarksLength - 2

\* the replacer, on a newline at (0-based) offset
ExtractNewline(e, offset) ==
    [e EXCEPT !.lines = Append(@, e.line), !.line = <<>>,
              !.lineStartPos = offset + 1, !.lineMarksLength = 0,
              !.lastGeneratedCol = 0, !.src = @ \o NL]

\* the replacer, on a mark at (0-based) offset
ExtractMark(e, mark, sourceLine, sourceCol, offset) ==
    Let(offset - e.lineStartPos - e.lineMarksLength, LAMBDA generatedCol :
        [e EXCEPT
          !.line = Append(@, vlq(generatedCol - e.lastGeneratedCol)
                             \o <<"A">>
                             \o vlq(sourceLine - e.lastSourceLine)
                             \o vlq(sourceCol - e.lastSourceCol)),
          !.lineMarksLength = NextLineMarksLength(@, mark),
          !.lastGeneratedCol = generatedCol,
          !.lastSourceLine = sourceLine,
          !.lastSourceCol = sourceCol,
          !.src = @ \o <<"/","*">> \o NumStr(sourceLine) \o <<",">>
                    \o NumStr(sourceCol) \o <<"*","/">>,
          \* history: the column computed for the mark, where its
          \* replacement starts in src, and the generated line it is on
          !.marks = Append(@, [generatedCol |-> generatedCol,
                               at |-> Len(e.src),
                               line |-> Len(e.lines)])])

\* the first position from p on where rx.locs matches, 0 when none does
NextLocsMatch(s, p) ==
    Let({q \in p..Len(s) : s[q] = "\n" \/ MarkLenAt(s, q) > 0}, LAMBDA ms :
        IF ms = {} THEN 0 ELSE CHOOSE q \in ms : \A r \in ms : q <= r)

\* the replacer on the mark of length m at (1-based) position q
ExtractMarkAt(embedded, q, m, d1, e) ==
    ExtractMark(e, SubSeq(embedded, q, q + m - 1),
                parseInt(SubSeq(embedded, q + 1, q + d1), 10),
                parseInt(SubSeq(embedded, q + 2 + d1, q + m - 2), 10),
                q - 1)

RECURSIVE ExtractFrom(_, _, _)
\* embedded.replace(rx.locs, ...) from (1-based) position p on: the text
\* up to the next match is copied, the match is handed to the replacer
ExtractFrom(embedded, p, e) ==
    Let(NextLocsMatch(embedded, p), LAMBDA q :
        IF q = 0
        THEN [e EXCEPT !.src = @ \o SubSeq(embedded, p, Len(embedded))]
        ELSE Let([e EXCEPT !.src = @ \o SubSeq(embedded, p, q - 1)],
                 LAMBDA e1 :
                    IF embedded[q] = "\n"
                    THEN ExtractFrom(embedded, q + 1, ExtractNewline(e1, q - 1))
                    ELSE Let(MarkLenAt(embedded, q), LAMBDA m :
                            ExtractFrom(embedded, q + m,
                                ExtractMarkAt(embedded, q, m,
                                    PrefixLen(embedded, q + 1, DecChar), e1)))))

\* lines.map(l => l.join(',')).join(';')
JoinMappings(lines) ==
    Join([k \in 1..Len(lines) |-> Join(lines[k], <<",">>)], <<";">>)

extractMappings(embedded) ==
    Let(ExtractFrom(embedded, 1,
            [line |-> <<>>, lines |-> <<>>, lastGeneratedCol |-> 0,
             lastSourceLine |-> 0, lastSourceCol |-> 0,
             lineStartPos |-> 0, lineMarksLength |-> 0,
             src |-> <<>>, marks |-> <<>>]),
        LAMBDA e :
            [src |-> e.src,
             mappings |-> JoinMappings(Append(e.lines, e.line)),
             marks |-> e.marks])

createMap(mappings, original, o) ==
    [version |-> 3, file |-> o.targetfile, sources |-> <<o.sourcefile>>,
     sourcesContent |-> <<original>>, names |-> <<>>, mappings |-> mappings]

extractMap(src, original, o) ==
    Let(extractMappings(src), LAMBDA extract :
        [src |-> extract.src,
         map |-> createMap(extract.mappings, original, o),
         marks |-> extract.marks])

(***************************************************************************)
(* The source texts preprocess is given.  They are built from fragments:   *)
(* an element with up to MaxProps properties, an element with up to        *)
(* MaxKids children, and texts of up to MaxFrags raw fragments (code,      *)
(* quotes, comment marks, open and close tags).                            *)
(***************************************************************************)
MaxProps == 3
MaxKids == 2
MaxFrags == 3

SeqsUpTo(S, n) == UNION {[1..k -> S] : k \in 0..n}

DIV == <<"d","i","v">>
FOO == <<"F","o","o">>

\* <tag props/> when there are no children, <tag props>kids</tag> otherwise
ElementText(tag, props, kids) ==
    <<"<">> \o tag \o Flatten(props)
    \o (IF kids = <<>> THEN <<"/",">">>
        ELSE <<">">> \o Flatten(kids) \o <<"<","/">> \o tag \o <<">">>)

JsxPropFrags ==
    { <<" ","a","=","\"","1","\"">>, <<" ","a","=","{","x","}">>, <<" ","o","n","C","l","i","c","k","=","{","f","}">>, <<" ","o","n","c","l","i","c","k","=","{","g","(",")","}">>,
      <<" ","{",".",".",".","m","}">>, <<" ","{",".",".",".","n","}">>, <<" ","t","e","x","t","C","o","n","t","e","n","t","=","\"","t","\"">>,
      <<" ","b","=","{","[","<","i"," ","a","=","\"","1","\""," ","a","=","{","y","}","/",">","]","}">> }

JsxCodeFrags == { <<" ","c","=","{","]","}">>, <<" ","d","=","{","\"","(","\"","}">>, <<" ","e","=","{","f","(","/","*","[","*","/",")","}">>, <<" ","{",".",".",".","{","k",":","[","1","]","}","}">> }

JsxKidFrags ==
    { <<"h","i">>, <<" ">>, <<"\n"," ">>, <<"{","y","}">>, <<"<","b","/",">">>, <<"<","!","-","-","c","-","-",">">>, <<"&","a","m","p",";","l","t",";">>,
      <<"&","#","1","0",";">>, <<"<","p","r","e",">","\n"," ","<","/","p","r","e",">">>, <<"{","f","(","<","b"," ","a","=","\"","1","\""," ","a","=","\"","2","\"","/",">",")","}">> }

NativePropFrags ==
    { <<" ","a"," ","="," ","\"","1","\"">>, <<" ","a"," ","="," ","x">>, <<" ","@","m">>, <<" ","b"," ","="," ","f","(","<","i","/",">",")">>, <<" ","c"," ","="," ","g","(","]",")">> }

NativeKidFrags == { <<"h","i">>, <<"@","y"," ">>, <<"@","g","[","<","b","/",">","]"," ">>, <<" ","\n">> }

RawFrags ==
    { <<"a">>, <<"'">>, <<"\"">>, <<"/","/">>, <<"/","*">>, <<"*","/">>, <<"\n">>, <<"\\">>, <<"<"," ">>,
      <<"<","a",">">>, <<"<","/","a",">">>, <<"<","/","b",">">> }

\* properties with event names, for an Html and a Component element
EventPropFrags ==
    { <<" ","o","n","D","o","u","b","l","e","C","l","i","c","k","=","{","h","}">>, <<" ","o","n","C","l","i","c","k","=","\"","s","\"">>, <<" ","o","n","C","l","i","c","k","=","{","f","}">>,
      <<" ","o","n","K","e","y","U","p","=","{","k","(",")","}">>, <<" ","o","n","=","{","p","}">>, <<" ","c","l","a","s","s","=","\"","a","\"">> }

\* properties whose code has, or has not, an apparent signal
SignalPropFrags ==
    { <<" ","p","=","{","(","e",")"," ","=",">"," ","g","(","e",")","}">>, <<" ","q","=","{","e"," ","=",">"," ","g","(","e",")","}">>, <<" ","r","=","{","f","u","n","c","t","i","o","n"," ","(",")"," ","{"," ","g","(",")"," ","}","}">>,
      <<" ","w","=","{","(","a",","," ","b",")"," ","=",">"," ","g","(","a",")","}">>, <<" ","s","=","\"","g","(",")","\"">>, <<" ","t","=","{","g","(",")","}">>, <<" ","u","=","{","v","}">>,
      <<" ","r","e","f","=","{","r","}">>, <<" ","{",".",".",".","m","}">> }

\* the inputs the documentation of the preprocessor works through
ExampleTexts ==
    { <<"l","e","t"," ","x"," ","="," ","<","d","i","v",">","<","/","d","i","v",">",";">>,
      <<"l","e","t"," ","x"," ","="," ","<","d","i","v"," ","o","n","C","l","i","c","k","=","{","f","}",">","h","i","<","/","d","i","v",">",";">>,
      <<"l","e","t"," ","x"," ","="," ","<","d","i","v"," ","c","l","a","s","s","=","\"","a","\"",">","h","i","<","/","d","i","v",">",";">>,
      <<"l","e","t"," ","x"," ","="," ","<","F","o","o"," ","a","=","\"","1","\""," ","{",".",".",".","m","}"," ","b","=","{","y","}","/",">",";">> }

JsxTexts ==
    { <<"x"," ","="," ">> \o ElementText(tag, props, kids) \o <<";">> :
        tag \in {DIV, FOO}, props \in SeqsUpTo(JsxPropFrags, MaxProps),
        kids \in {<<>>, <<<<"h","i">>>>} }
    \cup
    { <<"x"," ","="," ">> \o ElementText(DIV, <<p>>, <<>>) \o <<";">> : p \in JsxCodeFrags }
    \cup
    { <<"f","(","\n"," "," ">> \o ElementText(tag, <<>>, kids) \o <<")">> :
        tag \in {DIV, PRE, FOO}, kids \in SeqsUpTo(JsxKidFrags, MaxKids) }
    \cup
    { <<"l","e","t"," ","x"," ","="," ">> \o ElementText(tag, props, kids) \o <<";">> :
        tag \in {DIV, FOO}, props \in SeqsUpTo(EventPropFrags, MaxProps - 1),
        kids \in {<<>>, <<<<"h","i">>>>} }
    \cup
    { <<"l","e","t"," ","x"," ","="," ">> \o ElementText(DIV, props, kids) \o <<";">> :
        props \in SeqsUpTo(SignalPropFrags, MaxProps - 1),
        kids \in {<<>>, <<<<"{","y","}">>, <<"<","b","/",">">>>>} }
    \cup ExampleTexts

NativeTexts ==
    { <<"x"," ","="," ">> \o ElementText(tag, props, kids) \o <<";">> :
        tag \in {DIV, FOO}, props \in SeqsUpTo(NativePropFrags, MaxProps - 1),
        kids \in {<<>>} \cup {<<k>> : k \in NativeKidFrags} }

\* a text with every construct that has an end, one per mode, and the texts
\* that stop somewhere inside it
Specimen(jsx) ==
    IF jsx THEN <<"y",";","\n"," ","<","d","i","v","\r","\n"," ","a","=","\"","1","\""," ","b","=","{","g","(","x",")","}"," ","{",".",".",".","m","}",">","\n","<","!","-","-","c","-","-",">","h","i","{","z","}","<","b","/",">","<","/","d","i","v",">","/","*","c","*","/"," ","'","q","'">>
    ELSE <<"y",";","\n"," ","<","d","i","v","\r","\n"," ","a","=","\"","1","\""," ","b","=","g","(","x",")"," ","@","m",">","\n","<","!","-","-","c","-","-",">","h","i","@","z"," ","<","b","/",">","<","/","d","i","v",">","/","*","c","*","/"," ","'","q","'">>
TruncatedTexts(jsx) ==
    { SubSeq(Specimen(jsx), 1, n) : n \in 1..Len(Specimen(jsx)) }

RawTexts == { Flatten(fs) : fs \in SeqsUpTo(RawFrags, MaxFrags) }

SourceTexts(jsx) ==
    RawTexts \cup (IF jsx THEN JsxTexts ELSE NativeTexts) \cup TruncatedTexts(jsx)

\* params of preprocess; sourcemap "" is null
Params(jsx, sourcemap) ==
    [sourcemap |-> sourcemap, sourcefile |-> "in.js", targetfile |-> "out.js",
     jsx |-> jsx]

(***************************************************************************)
(* The runtime helper of spread.ts, on objects kept as their own keys in   *)
(* insertion order. An element also has the DOM properties of its          *)
(* prototype (known), the values given to them (props) and attributes.     *)
(***************************************************************************)
JsValue(t, own, known, style) ==
    [t |-> t, own |-> own, known |-> known, props |-> <<>>, attrs |-> <<>>,
     style |-> style]
Undefined == JsValue("undefined", <<>>, {}, <<>>)
PlainObject(own, style) == JsValue("object", own, {}, style)
DomElement(known) == JsValue("element", <<>>, known, <<>>)

\* the booleans given for svg
True == JsValue("true", <<>>, {}, <<>>)
False == JsValue("false", <<>>, {}, <<>>)

Truthy(v) == v.t \notin {"undefined", "false"}

\* assign, had it replaced a by b
assign_replace(a, b) == b

\* for (i ...) a[name] = b[name], on the keys of two objects
assign(a, b) ==
    LET AssignUpTo[k \in 0..Len(b)] ==
            IF k = 0 THEN a
            ELSE SetKey(AssignUpTo[k - 1], b[k].name, b[k].value)
    IN AssignUpTo[Len(b)]

\* var jsxEventProperty = /^on[A-Z]/ and translateJSXPropertyName(name, svg)
translateJSXPropertyName_rt(name, svg) ==
    IF jsxEventProperty(name)
    THEN (IF name = <<"o","n","D","o","u","b","l","e","C","l","i","c","k">> THEN <<"o","n","d","b","l","c","l","i","c","k">> ELSE toLowerCase(name))
    ELSE IF Truthy(svg)
    THEN (IF name = <<"c","l","a","s","s","N","a","m","e">> THEN <<"c","l","a","s","s">>
          ELSE IF name = <<"h","t","m","l","F","o","r">> THEN <<"f","o","r">> ELSE name)
    ELSE name

\* name in node
InNode(node, name) ==
    name \in node.known \/ \E k \in 1..Len(node.own) : node.own[k].name = name

\* if (name in node && !svg) node[name] = value;
\* else setAttribute(node, name, value)
setField(node, name, value, svg) ==
    IF InNode(node, name) /\ ~Truthy(svg)
    THEN (IF name \in node.known
          THEN [node EXCEPT !.props = SetKey(@, name, value)]
          ELSE [node EXCEPT !.own = SetKey(@, name, value)])
    ELSE [node EXCEPT !.attrs = SetKey(@, name, value)]

\* spread(node, obj, svg): the node after the loop over Object.keys(obj);
\* the function returns nothing
spread(node, obj, svg) ==
    LET SpreadUpTo[k \in 0..Len(obj.own)] ==
            IF k = 0 THEN node
            ELSE IF obj.own[k].name = <<"s","t","y","l","e">>
            THEN [SpreadUpTo[k - 1] EXCEPT !.style = assign(@, obj.style)]
            ELSE setField(SpreadUpTo[k - 1],
                          translateJSXPropertyName_rt(obj.own[k].name, svg),
                          obj.own[k].value, svg)
    IN [node |-> SpreadUpTo[Len(obj.own)], ret |-> Undefined]

\* the three arguments of the one call of Surplus.spread in the code
SpreadArgs(c) ==
    Let(CHOOSE p \in {q \in 1..Len(c) : StartsAt(c, q, <<"S","u","r","p","l","u","s",".","s","p","r","e","a","d","(">>)} : TRUE,
        LAMBDA p :
        Let(CHOOSE e \in {q \in p..Len(c) : c[q] = ")"} :
                \A q \in p..(e - 1) : c[q] # ")", LAMBDA e :
            Let(SubSeq(c, p + Len(<<"S","u","r","p","l","u","s",".","s","p","r","e","a","d","(">>), e - 1), LAMBDA inner :
                Let({q \in 1..Len(inner) : StartsAt(inner, q, <<","," ">>)}, LAMBDA cs :
                    IF Cardinality(cs) # 2 THEN <<>>
                    ELSE <<SubSeq(inner, 1, (CHOOSE q \in cs : \A r \in cs : q <= r) - 1),
                           SubSeq(inner, (CHOOSE q \in cs : \A r \in cs : q <= r) + 2,
                                  (CHOOSE q \in cs : \A r \in cs : q >= r) - 1),
                           SubSeq(inner, (CHOOSE q \in cs : \A r \in cs : q >= r) + 2,
                                  Len(inner))>>))))

NoEnc == [num |-> 0, str |-> <<>>]

NoRt == [element |-> Undefined, mixin |-> Undefined, given |-> Undefined,
         state |-> Undefined, args |-> <<>>, calls |-> 0,
         svg |-> Undefined, before |-> Undefined]

NoAst == CodeTopLevel(<<>>)
NoOut == [src |-> <<>>, map |-> [mappings |-> <<>>], marks |-> <<>>]

Init ==
    /\ pc = "start"
    /\ \E jsx \in BOOLEAN, sourcemap \in {"", "extract"} :
          /\ opts = Params(jsx, sourcemap)
          /\ str \in SourceTexts(jsx)
    /\ toks = <<>>
    /\ ast = NoAst
    /\ err = NoErr
    /\ closes = <<>>
    /\ ast2 = NoAst
    /\ ast2ts = NoAst
    /\ ast3 = NoAst
    /\ ast3ts = NoAst
    /\ code = <<>>
    /\ out = NoOut
    /\ rt = NoRt
    /\ enc = NoEnc

\* var toks = tokenize(str, params)
Tokenize ==
    /\ pc = "start"
    /\ toks' = tokenize(str)
    /\ pc' = "tokenized"
    /\ UNCHANGED <<str, opts, ast, err, closes, ast2, ast2ts, ast3, ast3ts,
                   code, out, rt, enc>>

\* ast = parse(toks, params): the AST, or the Error parse throws
Parse ==
    /\ pc = "tokenized"
    /\ LET r == parse(toks, opts)
       IN /\ ast' = r.ast
          /\ err' = r.err
          /\ closes' = r.s.closes
          /\ pc' = IF r.err.msg = "" THEN "parsed" ELSE "failed"
    /\ UNCHANGED <<str, opts, toks, ast2, ast2ts, ast3, ast3ts, code, out, rt, enc>>

\* ast2 = transform(ast, params), by the bundle and by transform.ts
Transform ==
    /\ pc = "parsed"
    /\ ast2' = transform(ast)
    /\ ast2ts' = transform_ts(ast)
    /\ pc' = "transformed"
    /\ UNCHANGED <<str, opts, toks, ast, err, closes, ast3, ast3ts, code, out, rt, enc>>

\* transform applied to its own result
TransformAgain ==
    /\ pc = "transformed"
    /\ ast3' = transform(ast2)
    /\ ast3ts' = transform_ts(ast2ts)
    /\ pc' = "transformed twice"
    /\ UNCHANGED <<str, opts, toks, ast, err, closes, ast2, ast2ts, code, out, rt, enc>>

\* code = compile(ast2, params): the string, or the TypeError it throws
Compile ==
    /\ pc = "transformed"
    /\ LET c == compile(ast2, opts)
       IN /\ code' = c.code
          /\ err' = [msg |-> c.err, loc |-> NoLoc, frag |-> <<>>]
          /\ pc' = IF c.err = "" THEN "compiled" ELSE "thrown"
    /\ UNCHANGED <<str, opts, toks, ast, closes, ast2, ast2ts, ast3, ast3ts,
                   out, rt, enc>>

\* out = params.sourcemap === 'extract' ? extractMap(code, str, params) : code
Return ==
    /\ pc = "compiled"
    /\ out' = IF opts.sourcemap = "extract" THEN extractMap(code, str, opts)
              ELSE [NoOut EXCEPT !.src = code]
    /\ pc' = "returned"
    /\ UNCHANGED <<str, opts, toks, ast, err, closes, ast2, ast2ts, ast3,
                   ast3ts, code, rt, enc>>

\* the elements and the mixin objects of a run
DomNames == {<<"t","i","t","l","e">>, <<"i","d">>, <<"o","n","c","l","i","c","k">>, <<"c","l","a","s","s","N","a","m","e">>}
MixinObjects ==
    { PlainObject(<<>>, <<>>),
      PlainObject(<<[name |-> <<"t","i","t","l","e">>, value |-> "t"]>>, <<>>),
      PlainObject(<<[name |-> <<"o","n","C","l","i","c","k">>, value |-> "h"],
                    [name |-> <<"i","d">>, value |-> "i"]>>, <<>>),
      PlainObject(<<[name |-> <<"s","t","y","l","e">>, value |-> "[object]"]>>,
                  <<[name |-> <<"c","o","l","o","r">>, value |-> "red"]>>),
      PlainObject(<<[name |-> <<"d","a","t","a","-","x">>, value |-> "d"]>>, <<>>) }
SpreadTexts ==
    { <<"l","e","t"," ","x"," ","="," ","<","d","i","v"," ","{",".",".",".","m","}","/",">",";">>, <<"l","e","t"," ","x"," ","="," ","<","d","i","v"," ","{",".",".",".","m","}"," ","t","i","t","l","e","=","\"","a","\"","/",">",";">>,
      <<"l","e","t"," ","x"," ","="," ","<","d","i","v"," ","t","i","t","l","e","=","\"","a","\""," ","{",".",".",".","m","}","/",">",";">>, <<"l","e","t"," ","x"," ","="," ","<","d","i","v"," ","{",".",".",".","m","}",">","h","i","<","/","d","i","v",">",";">>,
      <<"x"," ","="," ","<","b"," ","{",".",".",".","n","}","/",">",";">> }
MaxRuns == 2

InitSpread ==
    /\ pc = "start"
    /\ opts = Params(TRUE, "")
    /\ str \in SpreadTexts
    /\ toks = <<>>
    /\ ast = NoAst
    /\ err = NoErr
    /\ closes = <<>>
    /\ ast2 = NoAst
    /\ ast2ts = NoAst
    /\ ast3 = NoAst
    /\ ast3ts = NoAst
    /\ code = <<>>
    /\ out = NoOut
    /\ \E m \in MixinObjects :
          rt = [NoRt EXCEPT !.element = DomElement(DomNames), !.mixin = m,
                            !.given = m]
    /\ enc = NoEnc

\* one run of the computation of a Mixin: the call of Surplus.spread in the
\* code, its arguments bound to the parameters of spread in order; __ is
\* the element, __state what the run before returned, any other expression
\* the mixin object
Spread ==
    /\ pc \in {"compiled", "ran"}
    /\ rt.calls < MaxRuns
    /\ Cardinality({q \in 1..Len(code) :
                       StartsAt(code, q, <<"S","u","r","p","l","u","s",".","s","p","r","e","a","d","(">>)}) = 1
    /\ Len(SpreadArgs(code)) = 3
    /\ LET args == SpreadArgs(code)
           Value(a) == IF a = <<"_","_">> THEN rt.element
                       ELSE IF a = <<"_","_","s","t","a","t","e">> THEN rt.state
                       ELSE rt.mixin
           r == spread(Value(args[1]), Value(args[2]), Value(args[3]))
       IN rt' = [element |-> IF args[1] = <<"_","_">> THEN r.node ELSE rt.element,
                 mixin |-> IF args[1] \notin {<<"_","_">>, <<"_","_","s","t","a","t","e">>}
                           THEN r.node ELSE rt.mixin,
                 given |-> rt.given,
                 state |-> r.ret,
                 args |-> args,
                 calls |-> rt.calls + 1,
                 svg |-> rt.svg,
                 before |-> rt.before]
    /\ pc' = "ran"
    /\ UNCHANGED <<str, opts, toks, ast, err, closes, ast2, ast2ts, ast3,
                   ast3ts, code, out, enc>>

NextSpread == Tokenize \/ Parse \/ Transform \/ Compile \/ Spread

SpecSpread == InitSpread /\ [][NextSpread]_vars

\* the objects and nodes the runtime is given: objects of at most MaxKeys
\* own keys, each key with a value of its own
MaxKeys == 2
KeyNames == {<<"t","i","t","l","e">>, <<"o","n","C","l","i","c","k">>,
             <<"o","n","c","l","i","c","k">>,
             <<"o","n","D","o","u","b","l","e","C","l","i","c","k">>,
             <<"s","t","y","l","e">>, <<"d","a","t","a","-","x">>,
             <<"c","l","a","s","s","N","a","m","e">>}
KeyValues == <<"v1", "v2", "v3">>
StyleObjects ==
    { <<>>,
      <<[name |-> <<"c","o","l","o","r">>, value |-> "red"]>>,
      <<[name |-> <<"t","o","p">>, value |-> "0"],
        [name |-> <<"c","o","l","o","r">>, value |-> "red"]>> }
NodeStyles ==
    { <<>>,
      <<[name |-> <<"c","o","l","o","r">>, value |-> "blue"],
        [name |-> <<"w","i","d","t","h">>, value |-> "1px"]>> }
RuntimeObjects ==
    { PlainObject([k \in 1..Len(ns) |-> [name |-> ns[k], value |-> KeyValues[k]]],
                  st) :
        ns \in { s \in SeqsUpTo(KeyNames, MaxKeys) :
                    \A a, b \in 1..Len(s) : a # b => s[a] # s[b] },
        st \in StyleObjects }
RuntimeNodes ==
    { [DomElement(known) EXCEPT !.style = st] :
        known \in {DomNames, {}}, st \in NodeStyles }

InitRuntime ==
    /\ pc = "runtime"
    /\ opts = Params(TRUE, "")
    /\ str = <<>>
    /\ toks = <<>>
    /\ ast = NoAst
    /\ err = NoErr
    /\ closes = <<>>
    /\ ast2 = NoAst
    /\ ast2ts = NoAst
    /\ ast3 = NoAst
    /\ ast3ts = NoAst
    /\ code = <<>>
    /\ out = NoOut
    /\ \E node \in RuntimeNodes, obj \in RuntimeObjects, svg \in {False, True} :
          /\ (\E k \in 1..Len(obj.own) : obj.own[k].name = <<"s","t","y","l","e">>)
             \/ obj.style = <<>>
          /\ rt = [NoRt EXCEPT !.element = node, !.before = node,
                               !.mixin = obj, !.given = obj, !.svg = svg]
    /\ enc = NoEnc

\* a call spread(node, obj, svg) of the runtime, by its own parameters
CallSpread ==
    /\ pc = "runtime"
    /\ rt' = [rt EXCEPT !.element = spread(rt.element, rt.mixin, rt.svg).node,
                        !.state = spread(rt.element, rt.mixin, rt.svg).ret,
                        !.calls = @ + 1]
    /\ pc' = "spread"
    /\ UNCHANGED <<str, opts, toks, ast, err, closes, ast2, ast2ts, ast3,
                   ast3ts, code, out, enc>>

NextRuntime == CallSpread

SpecRuntime == InitRuntime /\ [][NextRuntime]_vars

\* the numbers vlq is given: every one below 2^20 in size
MaxVlq == 1048575
VlqInputs == -MaxVlq..MaxVlq

InitVlq ==
    /\ pc = "vlq"
    /\ opts = Params(TRUE, "extract")
    /\ str = <<>>
    /\ toks = <<>>
    /\ ast = NoAst
    /\ err = NoErr
    /\ closes = <<>>
    /\ ast2 = NoAst
    /\ ast2ts = NoAst
    /\ ast3 = NoAst
    /\ ast3ts = NoAst
    /\ code = <<>>
    /\ out = NoOut
    /\ rt = NoRt
    /\ \E n \in VlqInputs : enc = [num |-> n, str |-> <<>>]

\* str = vlq(num)
Vlq ==
    /\ pc = "vlq"
    /\ enc' = [enc EXCEPT !.str = vlq(enc.num)]
    /\ pc' = "encoded"
    /\ UNCHANGED <<str, opts, toks, ast, err, closes, ast2, ast2ts, ast3,
                   ast3ts, code, out, rt>>

NextVlq == Vlq

SpecVlq == InitVlq /\ [][NextVlq]_vars

Next == Tokenize \/ Parse \/ Transform \/ TransformAgain \/ Compile \/ Return

Spec == Init /\ [][Next]_vars

(***************************************************************************)
(* What the properties below read off an AST.                              *)
(***************************************************************************)
RECURSIVE ElementsIn(_), ElementsInSegments(_)
\* the elements among code segments, and all those nested in them, in
\* depth-first source order
ElementsInSegments(segments) ==
    Flatten([k \in 1..Len(segments) |->
                IF segments[k].kind = "HtmlElement"
                THEN ElementsIn(segments[k]) ELSE <<>>])

ElementsIn(node) ==
    <<node>>
    \o Flatten([k \in 1..Len(node.properties) |->
                  IF node.properties[k].kind = "StaticProperty" THEN <<>>
                  ELSE ElementsInSegments(node.properties[k].code.segments)])
    \o Flatten([k \in 1..Len(node.content) |->
                  IF node.content[k].kind = "HtmlElement"
                  THEN ElementsIn(node.content[k])
                  ELSE IF node.content[k].kind = "HtmlInsert"
                  THEN ElementsInSegments(node.content[k].code.segments)
                  ELSE <<>>])

RECURSIVE PosIn(_), PosInSegments(_)
\* Loc.pos of the nodes that carry a Loc, in depth-first source order
PosInSegments(segments) ==
    Flatten([k \in 1..Len(segments) |->
                IF segments[k].kind = "HtmlElement" THEN PosIn(segments[k])
                ELSE <<segments[k].loc.pos>>])

PosIn(node) ==
    <<node.loc.pos>>
    \o Flatten([k \in 1..Len(node.properties) |->
                  IF node.properties[k].kind = "StaticProperty" THEN <<>>
                  ELSE <<node.properties[k].loc.pos>>
                       \o PosInSegments(node.properties[k].code.segments)])
    \o Flatten([k \in 1..Len(node.content) |->
                  IF node.content[k].kind = "HtmlElement"
                  THEN PosIn(node.content[k])
                  ELSE IF node.content[k].kind = "HtmlInsert"
                  THEN <<node.content[k].loc.pos>>
                       \o PosInSegments(node.content[k].code.segments)
                  ELSE <<>>])

\* the EmbeddedCode nodes of an element: of its properties, then its inserts
CodesOf(node) ==
    [k \in 1..Len(SelectSeq(node.properties,
                            LAMBDA q : q.kind # "StaticProperty")) |->
        SelectSeq(node.properties, LAMBDA q : q.kind # "StaticProperty")[k].code]
    \o [k \in 1..Len(SelectSeq(node.content,
                               LAMBDA c : c.kind = "HtmlInsert")) |->
        SelectSeq(node.content, LAMBDA c : c.kind = "HtmlInsert")[k].code]

\* every EmbeddedCode of the AST
CodesIn(a) ==
    Let(ElementsInSegments(a.segments), LAMBDA es :
        Flatten([k \in 1..Len(es) |-> CodesOf(es[k])]))

\* the texts of the CodeText segments of an EmbeddedCode, concatenated
CodeTextOf(c) ==
    Flatten([k \in 1..Len(c.segments) |->
                IF c.segments[k].kind = "CodeText" THEN c.segments[k].text
                ELSE <<>>])

TextsOf(node) == SelectSeq(node.content, LAMBDA c : c.kind = "HtmlText")
KindsOf(content) == [k \in 1..Len(content) |-> content[k].kind]
Named(properties) == SelectSeq(properties, LAMBDA q : q.kind # "Mixin")
Mixins(properties) == SelectSeq(properties, LAMBDA q : q.kind = "Mixin")

\* what tells a property apart across transform: its kind and name, the
\* value of a static one, the location of one that holds code
Ident(q) ==
    [kind |-> q.kind,
     name |-> IF q.kind = "Mixin" THEN <<>> ELSE q.name,
     value |-> IF q.kind = "StaticProperty" THEN q.value ELSE <<>>,
     loc |-> IF q.kind = "StaticProperty" THEN NoLoc ELSE q.loc]
Idents(properties) == [k \in 1..Len(properties) |-> Ident(properties[k])]

\* the properties of an element as removeDuplicateProperties receives them
PreDedupe(node) ==
    promoteInitialTextNodesToTextContentProperties(
        translateJSXPropertyNames(removeWhitespaceTextNodes(node))).properties

\* pairs every element transform left in the AST with the parsed element it
\* was made of: the one at the same location (an element nested in a
\* property that transform dropped has no counterpart)
Paired(Ei, Eo, Holds(_, _)) ==
    \A k \in 1..Len(Eo) :
        \E i \in 1..Len(Ei) :
            Ei[i].loc = Eo[k].loc /\ Ei[i].tag = Eo[k].tag /\ Holds(Ei[i], Eo[k])

SomePair(Ei, Eo, Holds(_, _)) ==
    \E k \in 1..Len(Eo) :
        \E i \in 1..Len(Ei) : Ei[i].loc = Eo[k].loc /\ Holds(Ei[i], Eo[k])

(***************************************************************************)
(* C1                                                                      *)
(***************************************************************************)
UniqueLast(pre, post) ==
    /\ \A i, j \in 1..Len(post) :
          i < j /\ post[i].kind # "Mixin" /\ post[j].kind # "Mixin"
          => post[i].name # post[j].name
    /\ Idents(Mixins(post)) = Idents(Mixins(pre))
    /\ \A j \in 1..Len(post) :
          post[j].kind # "Mixin"
          => \E i \in 1..Len(pre) :
                /\ Ident(pre[i]) = Ident(post[j])
                /\ \A l \in (i + 1)..Len(pre) :
                      pre[l].kind = "Mixin" \/ pre[l].name # pre[i].name
    /\ \A i \in 1..Len(pre) :
          pre[i].kind # "Mixin"
          => \E j \in 1..Len(post) :
                post[j].kind # "Mixin" /\ post[j].name = pre[i].name

UniqueLastIn(ei, eo) == UniqueLast(PreDedupe(ei), eo.properties)
Deduped(ei, eo) ==
    /\ Len(eo.properties) < Len(PreDedupe(ei))
    /\ Mixins(eo.properties) # <<>>

\* C1: after transform, in every element at every depth no two properties
\* that are not Mixins share a name; of the properties of one name (as they
\* stand after event-name translation and text promotion) the last one is
\* kept; every Mixin is kept, in order.
C1_UniqueProperties ==
    pc = "transformed"
    => Paired(ElementsInSegments(ast.segments),
              ElementsInSegments(ast2.segments), UniqueLastIn)

\* an element that had a duplicate removed next to a Mixin
C1_Witness ==
    /\ pc = "transformed"
    /\ SomePair(ElementsInSegments(ast.segments),
                ElementsInSegments(ast2.segments), Deduped)

(***************************************************************************)
(* C2                                                                      *)
(***************************************************************************)
\* no Text of the AST holds an '&'
NoEntityIn(a) ==
    Let(ElementsInSegments(a.segments), LAMBDA es :
        \A k \in 1..Len(es) :
            \A i \in 1..Len(es[k].content) :
                es[k].content[i].kind = "HtmlText"
                => \A j \in 1..Len(es[k].content[i].text) :
                      es[k].content[i].text[j] # "&")

\* C2: transform of the bundle is idempotent on every parsed AST; transform
\* of transform.ts is idempotent on every parsed AST whose Text nodes hold no
\* HTML entity.
C2_Idempotent ==
    pc = "transformed twice"
    => /\ ast3 = ast2
       /\ NoEntityIn(ast) => ast3ts = ast2ts

\* a second transform of an AST that the first one changed, in both pipelines
C2_Witness ==
    /\ pc = "transformed twice"
    /\ ast2 # ast
    /\ ast2ts # ast
    /\ ast2ts # ast2
    /\ NoEntityIn(ast)
    /\ ast3 = ast2
    /\ ast3ts = ast2ts

\* C2 as stated: both pipelines are idempotent on every parsed AST.
C2_AsStated ==
    pc = "transformed twice" => ast3 = ast2 /\ ast3ts = ast2ts

(***************************************************************************)
(* C3                                                                      *)
(***************************************************************************)
HasElement(a) == \E k \in 1..Len(a.segments) : a.segments[k].kind = "HtmlElement"
NoLtToken == \A k \in 1..Len(toks) : toks[k] # <<"<">>

\* C3: with sourcemap null, an input that parses with no element (every '<'
\* token, if any, inside a string or a comment) is returned character for
\* character; an input with no '<' token at all fails only with an
\* unterminated string or an unterminated multi-line comment.
C3_RoundTrip ==
    /\ pc = "returned" /\ opts.sourcemap = "" /\ ~HasElement(ast)
       => out.src = str
    /\ NoLtToken
       => /\ pc # "thrown"
          /\ pc \in {"parsed", "transformed", "compiled", "returned"}
             => ~HasElement(ast)
          /\ pc = "failed"
             => err.msg \in {"unterminated string",
                             "unterminated multi-line comment"}

\* a returned text that holds a quote, a comment and a '<' token inside them
C3_Witness ==
    /\ pc = "returned"
    /\ opts.sourcemap = ""
    /\ ~HasElement(ast)
    /\ ~NoLtToken
    /\ \E k \in 1..Len(toks) : toks[k] \in {<<"'">>, <<"\"">>, <<"/", "/">>}
    /\ out.src = str

\* C3 as stated: every input with no '<' token is returned unchanged.
C3_AsStated ==
    pc \in {"failed", "thrown", "returned"} /\ opts.sourcemap = "" /\ NoLtToken
    => pc = "returned" /\ out.src = str

(***************************************************************************)
(* C4                                                                      *)
(***************************************************************************)
\* C4 as stated: transform and compile raise no error on any parsed AST.
C4_AsStated == pc # "thrown"

(***************************************************************************)
(* C5                                                                      *)
(***************************************************************************)
NonDecreasing(ps) == \A k \in 1..(Len(ps) - 1) : ps[k] <= ps[k + 1]

\* C5: in every parsed AST the Loc.pos of the nodes that carry a Loc do not
\* decrease in depth-first source order.
C5_LocMonotone ==
    pc = "parsed" => NonDecreasing(PosInSegments(ast.segments))

\* an embedded code below the first line, split around a nested element
C5_Witness ==
    /\ pc = "parsed"
    /\ opts.jsx
    /\ Let(CodesIn(ast), LAMBDA cs :
          \E k \in 1..Len(cs) :
             /\ Len(cs[k].segments) = 3
             /\ cs[k].segments[1].loc.line > 0
             /\ cs[k].segments[1].loc.pos < cs[k].segments[3].loc.pos)

(***************************************************************************)
(* C6                                                                      *)
(***************************************************************************)
Openers == {"(", "[", "{"}
Closers == {")", "]", "}"}
CloserOf(c) == IF c = "(" THEN ")" ELSE IF c = "[" THEN "]" ELSE "}"
MinOf(S) == CHOOSE q \in S : \A r \in S : q <= r
MaxOf(S) == CHOOSE q \in S : \A r \in S : q >= r

RECURSIVE StrictScan(_, _, _)
\* every bracket of t counts: an opener is pushed, a closer must close the
\* opener on top of the stack, nothing is left open at the end
StrictScan(t, p, stack) ==
    IF p > Len(t) THEN stack = <<>>
    ELSE IF t[p] \in Openers THEN StrictScan(t, p + 1, <<t[p]>> \o stack)
    ELSE IF t[p] \in Closers
    THEN /\ stack # <<>>
         /\ CloserOf(Head(stack)) = t[p]
         /\ StrictScan(t, p + 1, Tail(stack))
    ELSE StrictScan(t, p + 1, stack)

StrictBalanced(t) == StrictScan(t, 1, <<>>)

\* the number of backslashes that stand immediately before position q
BackslashesBefore(t, q) ==
    MaxOf({n \in 0..(q - 1) : \A i \in 1..n : t[q - i] = "\\"})

\* the position after the string literal that opens at p
AfterString(t, p) ==
    Let({q \in (p + 1)..Len(t) :
            t[q] = t[p] /\ BackslashesBefore(t, q) % 2 = 0},
        LAMBDA qs : IF qs = {} THEN Len(t) + 1 ELSE MinOf(qs) + 1)

\* the position after the single-line comment that opens at p
AfterLineComment(t, p) ==
    Let({q \in (p + 2)..Len(t) : t[q] = "\n"},
        LAMBDA qs : IF qs = {} THEN Len(t) + 1 ELSE MinOf(qs) + 1)

\* the position after the multi-line comment that opens at p
AfterBlockComment(t, p) ==
    Let({q \in (p + 2)..(Len(t) - 1) : t[q] = "*" /\ t[q + 1] = "/"},
        LAMBDA qs : IF qs = {} THEN Len(t) + 1 ELSE MinOf(qs) + 2)

RECURSIVE LooseScan(_, _, _)
\* brackets inside string literals and comments do not count; a closer that
\* is not the closer of the opener on top of the stack is plain text
LooseScan(t, p, stack) ==
    IF p > Len(t) THEN stack = <<>>
    ELSE IF t[p] \in {"'", "\""} THEN LooseScan(t, AfterString(t, p), stack)
    ELSE IF StartsAt(t, p, <<"/", "/">>)
    THEN LooseScan(t, AfterLineComment(t, p), stack)
    ELSE IF StartsAt(t, p, <<"/", "*">>)
    THEN LooseScan(t, AfterBlockComment(t, p), stack)
    ELSE IF t[p] \in Openers THEN LooseScan(t, p + 1, <<t[p]>> \o stack)
    ELSE IF t[p] \in Closers /\ stack # <<>> /\ CloserOf(Head(stack)) = t[p]
    THEN LooseScan(t, p + 1, Tail(stack))
    ELSE LooseScan(t, p + 1, stack)

LooseBalanced(t) == LooseScan(t, 1, <<>>)

CountOf(t, c) == Cardinality({k \in 1..Len(t) : t[k] = c})

RECURSIVE SplitOn(_, _, _)
\* the pieces of t from position p on, between the occurrences of c
SplitOn(t, c, p) ==
    Let({q \in p..Len(t) : t[q] = c}, LAMBDA qs :
        IF qs = {} THEN <<SubSeq(t, p, Len(t))>>
        ELSE <<SubSeq(t, p, MinOf(qs) - 1)>> \o SplitOn(t, c, MinOf(qs) + 1))

\* the number of comma-separated segments of each semicolon-separated line
SegmentsPerLine(mappings) ==
    Let(SplitOn(mappings, ";", 1), LAMBDA ls :
        [k \in 1..Len(ls) |->
            IF ls[k] = <<>> THEN 0 ELSE CountOf(ls[k], ",") + 1])

\* the (0-based) line of src on which offset at lies, and its column there
LineAt(src, at) == CountOf(SubSeq(src, 1, at), "\n")
ColAt(src, at) == at - MaxOf({0} \cup {k \in 1..at : src[k] = "\n"})

\* the number of marks that stand on each line of the marked text
MarksPerLine(embedded) ==
    Let(SplitOn(embedded, "\n", 1), LAMBDA ls :
        [k \in 1..Len(ls) |-> CountOf(ls[k], NUL) \div 2])

MarksConsistent(embedded, e) ==
    /\ CountOf(e.src, NUL) = 0
    /\ 2 * Len(e.marks) = CountOf(embedded, NUL)
    /\ SegmentsPerLine(e.mappings) = MarksPerLine(embedded)
    /\ \A i \in 1..Len(e.marks) :
          /\ e.marks[i].generatedCol >= 0
          /\ e.marks[i].generatedCol = ColAt(e.src, e.marks[i].at)
          /\ StartsAt(e.src, e.marks[i].at + 1, <<"/", "*">>)
          /\ e.marks[i].line = LineAt(e.src, e.marks[i].at)
    /\ \A i \in 1..(Len(e.marks) - 1) :
          /\ e.marks[i].at < e.marks[i + 1].at
          /\ e.marks[i].line = e.marks[i + 1].line
             => e.marks[i].generatedCol < e.marks[i + 1].generatedCol

\* C7: extractMappings returns one mapping segment for each mark of the
\* marked text, on the line the mark stands on; the column computed for a
\* mark is not negative, greater than that of the mark before it on the
\* line, and is where the text that replaced the mark starts in its line of
\* the returned src.
C7_MarksAndSegments ==
    pc = "returned" /\ opts.sourcemap = "extract"
    => MarksConsistent(code, [src |-> out.src, marks |-> out.marks,
                              mappings |-> out.map.mappings])

\* two marks on one line below the first, the second at a column that counts
\* the comment left by the first
C7_Witness ==
    /\ pc = "returned"
    /\ opts.sourcemap = "extract"
    /\ \E i \in 1..(Len(out.marks) - 1) :
          /\ out.marks[i].line > 0
          /\ out.marks[i].line = out.marks[i + 1].line
          /\ out.marks[i].generatedCol > 0
    /\ \E k \in 1..Len(out.map.mappings) : out.map.mappings[k] = ","
    /\ \E k \in 1..(Len(out.map.mappings) - 1) :
          out.map.mappings[k] = ";" /\ out.map.mappings[k + 1] = ";"

(***************************************************************************)
(* C8                                                                      *)
(***************************************************************************)
\* what the tokens say of how the element recorded in c was closed
ClosedSelf(c) == toks[c.last] = <<"/", ">">> /\ c.n = 0
ClosedByTag(c) ==
    /\ c.last >= 3
    /\ toks[c.last] = <<">">>
    /\ toks[c.last - 1] = c.tag
    /\ toks[c.last - 2] = <<"<", "/">>

ClosedAs(es) ==
    /\ Len(es) = Len(closes)
    /\ \A k \in 1..Len(es) :
          \E i \in 1..Len(closes) :
             /\ closes[i].pos = es[k].loc.pos
             /\ closes[i].tag = es[k].tag
             /\ closes[i].n = Len(es[k].content)
             /\ ClosedSelf(closes[i]) \/ ClosedByTag(closes[i])

\* C8: every element of a parsed AST ended at a '/>' token and has no
\* content, or ended at a '>' token that follows its own tag, which follows
\* a '</' token.
C8_MatchingClose ==
    pc = "parsed" => ClosedAs(ElementsInSegments(ast.segments))

\* an AST with an element closed by its tag around one written self-closing
C8_Witness ==
    /\ pc = "parsed"
    /\ \E i, j \in 1..Len(closes) :
          /\ ClosedByTag(closes[i]) /\ closes[i].n > 0
          /\ ClosedSelf(closes[j])
          /\ closes[i].pos < closes[j].pos
    /\ ClosedAs(ElementsInSegments(ast.segments))

(***************************************************************************)
(* C9                                                                      *)
(***************************************************************************)
NonWs(content) ==
    SelectSeq(content, LAMBDA c : ~(c.kind = "HtmlText" /\ allWs(c.text)))
SingleText(content) == Len(content) = 1 /\ content[1].kind = "HtmlText"
TextContents(properties) ==
    SelectSeq(Idents(properties), LAMBDA q : q.name = TEXTCONTENT)

\* promotion of the children that whitespace removal left, as C9 states it
PromotedIfSingleText(ei, eo) ==
    IF lowerStart(ei.tag) /\ SingleText(NonWs(ei.content))
    THEN /\ eo.content = <<>>
         /\ Len(eo.properties) > 0
         /\ eo.properties[Len(eo.properties)]
              = StaticProperty(TEXTCONTENT, codeStr(NonWs(ei.content)[1].text))
    ELSE /\ Len(eo.content) = Len(NonWs(ei.content))
         /\ \A k \in 1..Len(TextContents(eo.properties)) :
               \E i \in 1..Len(ei.properties) :
                  Ident(ei.properties[i]) = TextContents(eo.properties)[k]

\* C9 as stated, of the pipeline preprocess runs: an Html element is promoted
\* exactly when its content is a single Text; any other element keeps all
\* its children and gains no textContent property.
C9_AsStated ==
    pc = "transformed"
    => Paired(ElementsInSegments(ast.segments),
              ElementsInSegments(ast2.segments), PromotedIfSingleText)

(***************************************************************************)
(* C10                                                                     *)
(***************************************************************************)
WsNl(c) == c.kind = "HtmlText" /\ allWs(c.text) /\ hasNewline(c.text)
HasAmp(t) == \E k \in 1..Len(t) : t[k] = "&"

\* the children removeMultiLineWhitespaceTextNodes leaves
KeptNative(ei) ==
    IF ei.tag = PRE THEN ei.content
    ELSE SelectSeq(ei.content, LAMBDA c : ~WsNl(c))

\* the native pipeline: the children that are not whitespace with a newline
\* stay (or the only one, a Text, is promoted); a Text left that is
\* whitespace with a newline was written with an entity
NativeWhitespace(ei, eo) ==
    \/ /\ isHTML(ei)
       /\ SingleText(KeptNative(ei))
       /\ eo.content = <<>>
    \/ /\ KindsOf(eo.content) = KindsOf(KeptNative(ei))
       /\ \A k \in 1..Len(eo.content) :
             WsNl(eo.content[k]) /\ eo.tag # PRE
             => HasAmp(KeptNative(ei)[k].text)

\* the JSX pipeline: no whitespace-only Text stays, in a pre element or not
JsxWhitespace(ei, eo) ==
    /\ \A k \in 1..Len(eo.content) :
          ~(eo.content[k].kind = "HtmlText" /\ allWs(eo.content[k].text))
    /\ \/ KindsOf(eo.content) = KindsOf(NonWs(ei.content))
       \/ /\ lowerStart(ei.tag)
          /\ NonWs(ei.content) # <<>>
          /\ KindsOf(eo.content) = Tail(KindsOf(NonWs(ei.content)))

\* C10: after transform of the JSX pipeline no element, a pre element
\* included, has a whitespace-only Text child; after transform of the native
\* pipeline the whitespace-only Text children with a newline are gone from
\* every element but pre, save those written with an entity, and no other
\* child is removed.
C10_WhitespaceRemoved ==
    pc = "transformed"
    => /\ Paired(ElementsInSegments(ast.segments),
                 ElementsInSegments(ast2.segments), JsxWhitespace)
       /\ Paired(ElementsInSegments(ast.segments),
                 ElementsInSegments(ast2ts.segments), NativeWhitespace)

HasWsNl(e) == e.tag # PRE /\ \E k \in 1..Len(e.content) : WsNl(e.content[k])
LostWsNl(ei, eo) == HasWsNl(ei) /\ ~HasWsNl(eo) /\ eo.content # <<>>

\* an element that lost a whitespace Text with a newline and kept a child
C10_Witness ==
    /\ pc = "transformed"
    /\ SomePair(ElementsInSegments(ast.segments),
                ElementsInSegments(ast2.segments), LostWsNl)
    /\ SomePair(ElementsInSegments(ast.segments),
                ElementsInSegments(ast2ts.segments), LostWsNl)

\* C10 as stated: after transform, of either pipeline, no element but pre
\* has a Text child that is whitespace with a newline.
C10_AsStated ==
    pc = "transformed"
    => /\ Let(ElementsInSegments(ast2.segments), LAMBDA es :
             \A k \in 1..Len(es) : ~HasWsNl(es[k]))
       /\ Let(ElementsInSegments(ast2ts.segments), LAMBDA es :
             \A k \in 1..Len(es) : ~HasWsNl(es[k]))

(***************************************************************************)
(* C11                                                                     *)
(***************************************************************************)
Lower26 == <<"a","b","c","d","e","f","g","h","i","j","k","l","m",
             "n","o","p","q","r","s","t","u","v","w","x","y","z">>
Upper26 == <<"A","B","C","D","E","F","G","H","I","J","K","L","M",
             "N","O","P","Q","R","S","T","U","V","W","X","Y","Z">>

\* a is b with every capital letter replaced by its small letter
Lowercased(a, b) ==
    /\ Len(a) = Len(b)
    /\ \A k \in 1..Len(b) :
          IF \E n \in 1..26 : Upper26[n] = b[k]
          THEN \E n \in 1..26 : Upper26[n] = b[k] /\ Lower26[n] = a[k]
          ELSE a[k] = b[k]

OnCapital(name) ==
    /\ Len(name) >= 3
    /\ name[1] = "o" /\ name[2] = "n"
    /\ \E n \in 1..26 : Upper26[n] = name[3]

\* the name a property written as `name` on an element `tag` is to carry
NameTranslated(tag, kind, name, translated) ==
    IF kind = "DynamicProperty" /\ OnCapital(name)
       /\ (\E n \in 1..26 : Lower26[n] = tag[1])
    THEN IF name = <<"o","n","D","o","u","b","l","e","C","l","i","c","k">>
         THEN translated = <<"o","n","d","b","l","c","l","i","c","k">>
         ELSE Lowercased(translated, name)
    ELSE translated = name

\* every property of eo is a property of ei (or the promoted text), with the
\* name translated, and the same location and code text
NamesTranslated(ei, eo) ==
    \A j \in 1..Len(eo.properties) :
        \/ /\ eo.properties[j].kind = "StaticProperty"
           /\ \/ \E i \in 1..Len(ei.properties) :
                    ei.properties[i] = eo.properties[j]
              \/ /\ eo.properties[j].name = TEXTCONTENT
                 /\ \E n \in 1..26 : Lower26[n] = ei.tag[1]
        \/ /\ eo.properties[j].kind # "StaticProperty"
           /\ \E i \in 1..Len(ei.properties) :
                 /\ ei.properties[i].kind = eo.properties[j].kind
                 /\ ei.properties[i].loc = eo.properties[j].loc
                 /\ CodeTextOf(ei.properties[i].code)
                      = CodeTextOf(eo.properties[j].code)
                 /\ eo.properties[j].kind = "DynamicProperty"
                    => NameTranslated(ei.tag, "DynamicProperty",
                                      ei.properties[i].name,
                                      eo.properties[j].name)

\* C11: after transform, a DynamicProperty of an Html element whose name
\* matched ^on[A-Z] carries the lowercased name, ondblclick for
\* onDoubleClick; every other property, and every property of a Component,
\* carries the name it was written with; location and code text are the same.
C11_EventNames ==
    pc = "transformed"
    => Paired(ElementsInSegments(ast.segments),
              ElementsInSegments(ast2.segments), NamesTranslated)

Renamed(ei, eo) ==
    /\ \E j \in 1..Len(eo.properties) :
          /\ eo.properties[j].kind = "DynamicProperty"
          /\ eo.properties[j].name = <<"o","n","d","b","l","c","l","i","c","k">>
    /\ \E j \in 1..Len(eo.properties) :
          /\ eo.properties[j].kind = "StaticProperty"
          /\ eo.properties[j].name = <<"o","n","C","l","i","c","k">>
    /\ \E i \in 1..Len(ei.properties) :
          /\ ei.properties[i].kind = "DynamicProperty"
          /\ ei.properties[i].name = <<"o","n","D","o","u","b","l","e","C","l","i","c","k">>

\* an Html element written with onDoubleClick={..} and a static onClick
C11_Witness ==
    /\ pc = "transformed"
    /\ SomePair(ElementsInSegments(ast.segments),
                ElementsInSegments(ast2.segments), Renamed)

(***************************************************************************)
(* What the properties below read off the generated code.                  *)
(***************************************************************************)
EndsWith(t, lit) ==
    Len(lit) <= Len(t) /\ SubSeq(t, Len(t) - Len(lit) + 1, Len(t)) = lit
Occurrences(t, lit) == {p \in 1..(Len(t) - Len(lit) + 1) : StartsAt(t, p, lit)}
Contains(t, lit) == Occurrences(t, lit) # {}

\* the AST has one element among its top-level segments
TopIndexes(a) == {k \in 1..Len(a.segments) : a.segments[k].kind = "HtmlElement"}
SingleTop(a) == Cardinality(TopIndexes(a)) = 1
TopIndex(a) == CHOOSE k \in TopIndexes(a) : TRUE
TopElement(a) == a.segments[TopIndex(a)]
\* the code text before, and after, that element
TextBefore(a) ==
    Flatten([k \in 1..(TopIndex(a) - 1) |-> a.segments[k].text])
TextAfter(a) ==
    Flatten([k \in 1..(Len(a.segments) - TopIndex(a)) |->
                a.segments[TopIndex(a) + k].text])
\* what was generated for that element: the code between the two texts
TopCode == SubSeq(code, Len(TextBefore(ast2)) + 1,
                        Len(code) - Len(TextAfter(ast2)))

\* the blanks that start the last line of t, when t has a line break and
\* its last line is not empty
IndentOf(t) ==
    Let({k \in 1..Len(t) : t[k] = "\n"}, LAMBDA nls :
        IF nls = {} \/ MaxOf(nls) = Len(t) THEN <<>>
        ELSE Let(MaxOf(nls), LAMBDA n :
                SubSeq(t, n + 1,
                       MinOf({k \in (n + 1)..(Len(t) + 1) :
                                 k = Len(t) + 1 \/ t[k] \notin {" ", "\t"}}) - 1)))

IsComponent(e) == \E n \in 1..26 : Upper26[n] = e.tag[1]

\* code was generated, without marks, for an AST with one top-level element
OneElementCompiled ==
    /\ pc = "compiled"
    /\ opts.sourcemap = ""
    /\ SingleTop(ast2)

(***************************************************************************)
(* C12                                                                     *)
(***************************************************************************)
\* the IIFE of an Html element e, as far as C12 describes it
RootIIFE(E, e, nl) ==
    /\ StartsAt(E, 1, <<"(","f","u","n","c","t","i","o","n"," ","(",")"," ","{">> \o nl \o <<" "," "," "," ","v","a","r"," ","_","_">>)
    /\ E[Len(<<"(","f","u","n","c","t","i","o","n"," ","(",")"," ","{">> \o nl \o <<" "," "," "," ","v","a","r"," ","_","_">>) + 1] \in {";", ","}
    /\ Contains(E, <<";">> \o nl \o <<" "," "," "," ","_","_"," ","="," ","S","u","r","p","l","u","s",".","c","r","e","a","t","e","R","o","o","t","E","l","e","m","e","n","t","(","'">>
                   \o e.tag \o <<"'",")">> \o nl)
    /\ EndsWith(E, nl \o <<" "," "," "," ","r","e","t","u","r","n"," ","_","_",";">> \o nl \o <<"}",")","(",")">>)

LeafOrIIFE(E, e, nl) ==
    IF e.properties = <<>> /\ e.content = <<>>
    THEN E = <<"S","u","r","p","l","u","s",".","c","r","e","a","t","e","R","o","o","t","E","l","e","m","e","n","t","(","\"">> \o e.tag \o <<"\"",")">>
    ELSE RootIIFE(E, e, nl)

\* C12: an Html element with no properties and no content is generated as
\* the call Surplus.createRootElement("tag") alone; any other Html element
\* at the top of a markup expression is generated as an IIFE that declares
\* __, creates it with createRootElement and ends with return __.
C12_LeafOrIIFE ==
    OneElementCompiled /\ ~IsComponent(TopElement(ast2))
    => /\ StartsAt(code, 1, TextBefore(ast2))
       /\ EndsWith(code, TextAfter(ast2))
       /\ LeafOrIIFE(TopCode, TopElement(ast2),
                     <<"\r","\n">> \o IndentOf(TextBefore(ast2)))

\* the first example: an element written with a close tag and nothing in it
C12_Witness ==
    /\ OneElementCompiled
    /\ str = <<"l","e","t"," ","x"," ","="," ","<","d","i","v",">","<","/","d","i","v",">",";">>
    /\ code = <<"l","e","t"," ","x"," ","="," ","S","u","r","p","l","u","s",".","c","r","e","a","t","e","R","o","o","t","E","l","e","m","e","n","t","(","\"","d","i","v","\"",")",";">>

(***************************************************************************)
(* C13                                                                     *)
(***************************************************************************)
PlainText(t) == \A k \in 1..Len(t) : t[k] \notin {"'", "\\", "\n", "\r"}

\* an Html element written with one dynamic property, whose code is one
\* text with no parenthesis, and one Text as its content
OneHandlerOneText(e) ==
    /\ ~IsComponent(e)
    /\ Len(e.properties) = 1
    /\ e.properties[1].kind = "DynamicProperty"
    /\ e.properties[1].name # <<"r","e","f">>
    /\ Len(e.properties[1].code.segments) = 1
    /\ e.properties[1].code.segments[1].kind = "CodeText"
    /\ ~Contains(e.properties[1].code.segments[1].text, <<"(">>)
    /\ Len(e.content) = 1
    /\ e.content[1].kind = "HtmlText"
    /\ PlainText(e.content[1].text)
    /\ \E k \in 1..Len(e.content[1].text) : ~WsChar(e.content[1].text[k])

\* the IIFE with both assignments inline; name is the translated name
InlineHandlerAndText(E, e, name, nl) ==
    E = <<"(","f","u","n","c","t","i","o","n"," ","(",")"," ","{">>
        \o nl \o <<" "," "," "," ","v","a","r"," ","_","_",";">>
        \o nl \o <<" "," "," "," ","_","_"," ","="," ","S","u","r","p","l","u","s",".","c","r","e","a","t","e","R","o","o","t","E","l","e","m","e","n","t","(","'">> \o e.tag \o <<"'",")">>
        \o nl \o <<" "," "," "," ","_","_",".">> \o name \o <<" ","="," ">>
                 \o e.properties[1].code.segments[1].text \o <<";">>
        \o nl \o <<" "," "," "," ","_","_",".","t","e","x","t","C","o","n","t","e","n","t"," ","="," ","'">> \o e.content[1].text \o <<"'",";">>
        \o nl \o <<" "," "," "," ">>
        \o nl \o <<" "," "," "," ","r","e","t","u","r","n"," ","_","_",";">>
        \o nl \o <<"}",")","(",")">>

\* C13: for an Html element with one dynamic property whose code has no
\* parenthesis and whose content is one Text, the generated IIFE declares
\* __, assigns the property inline and assigns the text to __.textContent
\* inline; it has no createTextNode statement and no S(...) computation.
C13_InlineHandler ==
    OneElementCompiled /\ SingleTop(ast) /\ OneHandlerOneText(TopElement(ast))
    => /\ InlineHandlerAndText(TopCode, TopElement(ast),
                               TopElement(ast2).properties[1].name,
                               <<"\r","\n">> \o IndentOf(TextBefore(ast2)))
       /\ ~Contains(code, <<"c","r","e","a","t","e","T","e","x","t","N","o","d","e">>)
       /\ ~Contains(code, <<"S","u","r","p","l","u","s",".","S","(">>)

\* the example of the documentation
C13_Witness ==
    /\ OneElementCompiled
    /\ str = <<"l","e","t"," ","x"," ","="," ","<","d","i","v"," ","o","n","C","l","i","c","k","=","{","f","}",">","h","i","<","/","d","i","v",">",";">>
    /\ Contains(code, <<"_","_",".","o","n","c","l","i","c","k"," ","="," ","f",";">>)
    /\ Contains(code, <<"_","_",".","t","e","x","t","C","o","n","t","e","n","t"," ","="," ","'","h","i","'",";">>)

\* C13 as stated: the code generated for the example sets __.onclick = f;
\* creates the text with a createTextNode('hi', __) statement, and has no
\* S(...) computation.
C13_AsStated ==
    OneElementCompiled /\ str = <<"l","e","t"," ","x"," ","="," ","<","d","i","v"," ","o","n","C","l","i","c","k","=","{","f","}",">","h","i","<","/","d","i","v",">",";">>
    => /\ Contains(code, <<"_","_",".","o","n","c","l","i","c","k"," ","="," ","f",";">>)
       /\ Contains(code, <<"c","r","e","a","t","e","T","e","x","t","N","o","d","e","(","'","h","i","'",","," ","_","_",")">>)
       /\ ~Contains(code, <<"S","u","r","p","l","u","s",".","S","(">>)

(***************************************************************************)
(* C14                                                                     *)
(***************************************************************************)
\* C14 as stated: for the example with a static class property and one
\* Text, the transformed element has a textContent property and no content,
\* and the generated code assigns to __.className and assigns
\* __.textContent = 'hi';
C14_AsStated ==
    OneElementCompiled /\ str = <<"l","e","t"," ","x"," ","="," ","<","d","i","v"," ","c","l","a","s","s","=","\"","a","\"",">","h","i","<","/","d","i","v",">",";">>
    => /\ TopElement(ast2).content = <<>>
       /\ \E j \in 1..Len(TopElement(ast2).properties) :
             TopElement(ast2).properties[j]
                = StaticProperty(TEXTCONTENT, <<"'","h","i","'">>)
       /\ Contains(code, <<"_","_",".","t","e","x","t","C","o","n","t","e","n","t"," ","="," ","'","h","i","'",";">>)
       /\ Contains(code, <<"_","_",".","c","l","a","s","s","N","a","m","e"," ","="," ">>)


(***************************************************************************)
(* C15                                                                     *)
(***************************************************************************)
\* the i-th smallest member of a set of numbers
Nth(S, i) == CHOOSE x \in S : Cardinality({y \in S : y < x}) = i - 1

\* where the groups of a property list start: at every Mixin, and at every
\* non-Mixin that no non-Mixin precedes
GroupStarts(ps) ==
    {a \in 1..Len(ps) :
        ps[a].kind = "Mixin" \/ a = 1 \/ ps[a - 1].kind = "Mixin"}
\* where the group that starts at a ends: a maximal run of non-Mixins
GroupEnd(ps, a) ==
    IF ps[a].kind = "Mixin" THEN a
    ELSE MaxOf({b \in a..Len(ps) : \A k \in a..b : ps[k].kind # "Mixin"})

\* the value a property contributes
GroupValue(p) ==
    IF p.kind = "StaticProperty" THEN p.value ELSE compileSegments(p.code, opts)

\* the array expression of the children of a Component
ChildrenArray(e, nl) ==
    Let(buildSubComponent(e, opts).children, LAMBDA cs :
        IF cs = <<>> THEN <<"[","]">>
        ELSE <<"[">> \o nl \o <<" "," "," "," "," "," "," "," ">>
             \o Join(cs, <<",">> \o nl \o <<" "," "," "," "," "," "," "," ">>)
             \o nl \o <<" "," "," "," ">> \o <<"]">>)

\* key: value lines of an object literal
KeyLines(keys, nl) ==
    Join([k \in 1..Len(keys) |->
            nl \o <<" "," "," "," ">> \o keys[k].name \o <<":"," ">> \o keys[k].value], <<",">>)

\* the text of the group of e.properties that starts at a
GroupText(e, a, nl) ==
    IF e.properties[a].kind = "Mixin" THEN GroupValue(e.properties[a])
    ELSE <<"{">>
         \o KeyLines([k \in 1..(GroupEnd(e.properties, a) - a + 1) |->
                        [name |-> e.properties[a + k - 1].name,
                         value |-> GroupValue(e.properties[a + k - 1])]]
                     \o (IF a = 1
                         THEN <<[name |-> <<"c","h","i","l","d","r","e","n">>,
                                 value |-> ChildrenArray(e, nl)]>>
                         ELSE <<>>),
                     nl)
         \o nl \o <<"}">>

\* the groups of a Component in source order, a group that holds only the
\* children put first when the first property is a Mixin
GroupTexts(e, nl) ==
    (IF e.properties[1].kind = "Mixin"
     THEN <<<<"{">> \o KeyLines(<<[name |-> <<"c","h","i","l","d","r","e","n">>,
                                   value |-> ChildrenArray(e, nl)]>>, nl)
            \o nl \o <<"}">>>>
     ELSE <<>>)
    \o [i \in 1..Cardinality(GroupStarts(e.properties)) |->
          GroupText(e, Nth(GroupStarts(e.properties), i), nl)]

ComponentCall(e, nl) ==
    IF Len(GroupTexts(e, nl)) = 1
    THEN e.tag \o <<"(">> \o GroupTexts(e, nl)[1] \o <<")">>
    ELSE <<"S","u","r","p","l","u","s",".","s","u","b","c","o","m","p","o","n","e","n","t","(">> \o e.tag \o <<","," ","[">>
         \o Join(GroupTexts(e, nl), <<","," ">>) \o <<"]",")">>

UnterminatedOpeners ==
    [msg \in {"unterminated start node", "element missing close tag",
              "unterminated string", "unterminated parentheses",
              "unterminated multi-line comment", "unterminated html comment"}
     |-> CASE msg \in {"unterminated start node", "element missing close tag"}
                -> {<<"<">>}
           [] msg = "unterminated string" -> {<<"'">>, <<"\"">>}
           [] msg = "unterminated parentheses" -> {<<"(">>, <<"[">>, <<"{">>}
           [] msg = "unterminated multi-line comment" -> {<<"/", "*">>}
           [] OTHER -> {<<"<", "!", "-", "-">>}]

\* the errors the stream can end with that are raised where it ended, or
\* for what was read
OtherEndErrors ==
    {"expected equals sign after property name",
     "unexepected value for JSX property", "not in embedded code",
     "malformed close tag", "mismatched open and close tags",
     "bad element name"}

\* t without the first c it holds
WithoutFirst(t, c) ==
    IF \A k \in 1..Len(t) : t[k] # c THEN t
    ELSE Let(MinOf({k \in 1..Len(t) : t[k] = c}), LAMBDA k :
            [j \in 1..(Len(t) - 1) |-> IF j < k THEN t[j] ELSE t[j + 1]])

\* the characters of src that follow offset pos, thirty at most
Thirty(src, pos) ==
    [j \in 1..(IF Len(src) - pos < 30 THEN Len(src) - pos ELSE 30) |->
        src[pos + j]]

\* the stream was read to its end
EndOfStream == parse(toks, opts).s.EOF

\* the location is the one of offset loc.pos of the input
LocOfInput(loc) ==
    /\ loc.pos \in 0..(Len(str) - 1)
    /\ loc.line = LineAt(str, loc.pos)
    /\ loc.col = ColAt(str, loc.pos)

\* the first // token comes before any quote, comment or element, and no
\* line break follows it
EndsInLineComment ==
    \E k \in 1..Len(toks) :
        /\ toks[k] = <<"/", "/">>
        /\ \A j \in 1..(k - 1) :
              toks[j] \notin {<<"<">>, <<"'">>, <<"\"">>, <<"/", "*">>, <<"/", "/">>}
        /\ \A j \in k..Len(toks) : toks[j] # <<"\n">>

AppliedTo(el, m, k) ==
    IF m.own[k].name = <<"s","t","y","l","e">>
    THEN \A j \in 1..Len(m.style) :
            \E i \in 1..Len(el.style) : el.style[i] = m.style[j]
    ELSE Let(IF jsxEventProperty(m.own[k].name)
             THEN toLowerCase(m.own[k].name) ELSE m.own[k].name, LAMBDA n :
            \E i \in 1..Len(el.props \o el.attrs) :
                (el.props \o el.attrs)[i] = [name |-> n, value |-> m.own[k].value])

\* C17 as stated: the call passes the mixin expression, the element and the
\* state in that order, and after a run the element has the properties of
\* the mixin object.
C17_AsStated ==
    rt.calls > 0
    => /\ rt.args[2] = <<"_","_">>
       /\ rt.args[3] = <<"_","_","s","t","a","t","e">>
       /\ \A k \in 1..Len(rt.given.own) : AppliedTo(rt.element, rt.given, k)


(***************************************************************************)
(* C18                                                                     *)
(***************************************************************************)
\* the statement of a static or dynamic property of the element named id,
\* and for a Mixin the call of its statement up to the state argument
PropertyStatement(p, id) ==
    IF p.kind = "StaticProperty"
    THEN id \o <<".">> \o p.name \o <<" ","="," ">> \o p.value \o <<";">>
    ELSE IF p.kind = "Mixin"
    THEN <<"S","u","r","p","l","u","s",".","s","p","r","e","a","d","(">> \o GroupValue(p) \o <<","," ">> \o id \o <<","," ">>
    ELSE IF p.name = <<"r","e","f">> THEN GroupValue(p) \o <<" ","="," ">> \o id \o <<";">>
    ELSE id \o <<".">> \o p.name \o <<" ","="," ">> \o GroupValue(p) \o <<";">>

\* a statement stands in the body of the IIFE, or in a computation: alone
\* between its braces, or on a line of its own
InlineIn(E, stmt, nl) == Contains(E, nl \o <<" "," "," "," ">> \o stmt)
ComputedIn(E, stmt, nl) ==
    \/ Contains(E, nl \o <<" "," "," "," "," "," "," "," ">> \o stmt)
    \/ Contains(E, nl \o <<" "," "," "," "," "," "," "," ","r","e","t","u","r","n"," ">> \o stmt)
    \/ Contains(E, <<")"," ","{"," ">> \o stmt)
    \/ Contains(E, <<")"," ","{"," ","r","e","t","u","r","n"," ">> \o stmt)
    \/ \E k \in 1..9 :
          Contains(E, nl \o <<" "," "," "," "," "," "," "," ","_","_","m","i","x","i","n">> \o NumStr(k) \o <<" ","="," ">> \o stmt)
    \/ Contains(E, nl \o <<" "," "," "," "," "," "," "," ","_","_","s","t","a","t","e"," ","="," ">> \o stmt)

\* function , (name) => with one name at most, name =>
LoneHead(v) ==
    \/ StartsAt(v, 1, <<"f","u","n","c","t","i","o","n"," ">>)
    \/ \E n \in 0..Len(v) :
          /\ At(v, 1) = "("
          /\ \A k \in 2..(n + 1) : WordChar(At(v, k))
          /\ StartsAt(v, n + 2, <<")"," ","=",">">>)
    \/ \E n \in 1..Len(v) :
          /\ \A k \in 1..n : WordChar(v[k])
          /\ StartsAt(v, n + 1, <<" ","=",">">>)
\* function , (args) => with any list of arguments, name =>
LoneHeadAnyArgs(v) ==
    \/ LoneHead(v)
    \/ \E n \in 0..Len(v) :
          /\ At(v, 1) = "("
          /\ \A k \in 2..(n + 1) : At(v, k) \notin {"(", ")"}
          /\ StartsAt(v, n + 2, <<")"," ","=",">">>)

ApparentSignal(p, IsHead(_)) ==
    /\ p.kind = "DynamicProperty"
    /\ \E k \in 1..Len(GroupValue(p)) : GroupValue(p)[k] = "("
    /\ ~IsHead(GroupValue(p))

DynamicBy(e, IsHead(_)) ==
    \E k \in 1..Len(e.properties) :
        e.properties[k].kind = "Mixin" \/ ApparentSignal(e.properties[k], IsHead)

\* the children of e that bring no computation of their own
PlainContent(e) == \A k \in 1..Len(e.content) : e.content[k].kind = "HtmlText"

WrappedIff(E, e, nl, IsHead(_)) ==
    /\ DynamicBy(e, IsHead)
       => /\ \A k \in 1..Len(e.properties) :
                /\ ~InlineIn(E, PropertyStatement(e.properties[k], <<"_","_">>), nl)
                /\ ComputedIn(E, PropertyStatement(e.properties[k], <<"_","_">>), nl)
          /\ PlainContent(e)
             => Cardinality(Occurrences(E, <<"S","u","r","p","l","u","s",".","S","(","f","u","n","c","t","i","o","n"," ","(">>)) = 1
    /\ ~DynamicBy(e, IsHead)
       => /\ \A k \in 1..Len(e.properties) :
                /\ InlineIn(E, PropertyStatement(e.properties[k], <<"_","_">>), nl)
                /\ ~ComputedIn(E, PropertyStatement(e.properties[k], <<"_","_">>), nl)
          /\ PlainContent(e) => ~Contains(E, <<"S","u","r","p","l","u","s",".","S","(">>)

\* C18: the property statements of an Html element are in a computation
\* exactly when it has a Mixin, or a DynamicProperty whose compiled code
\* holds a ( and does not begin with function , with (name) => of one name
\* at most, or with name =>; otherwise each is a statement of the IIFE and
\* the element has no property computation. A StaticProperty does not
\* count, whatever its value holds.
C18_WrappedIffDynamic ==
    OneElementCompiled /\ ~IsComponent(TopElement(ast2))
    => WrappedIff(TopCode, TopElement(ast2),
                  <<"\r","\n">> \o IndentOf(TextBefore(ast2)), LoneHead)

\* a static value with a call and a dynamic code with a call, both in the
\* one computation
C18_Witness ==
    /\ pc = "compiled"
    /\ str = <<"l","e","t"," ","x"," ","="," ","<","d","i","v"," ","s","=","\"","g","(",")","\""," ","t","=","{","g","(",")","}","/",">",";">>
    /\ Contains(code, <<"S","u","r","p","l","u","s",".","S","(","f","u","n","c","t","i","o","n"," ","(",")"," ","{","\r","\n"," "," "," "," "," "," "," "," ","_","_",".","s"," ","="," ","\"","g","(",")","\"",";","\r","\n"," "," "," "," "," "," "," "," ","_","_",".","t"," ","="," ","g","(",")",";","\r","\n"," "," "," "," "," "," "," "," ","}",")",";">>)

\* C18 as stated: the same with (args) => read as any list of arguments.
C18_AsStated ==
    OneElementCompiled /\ ~IsComponent(TopElement(ast2))
    => WrappedIff(TopCode, TopElement(ast2),
                  <<"\r","\n">> \o IndentOf(TextBefore(ast2)), LoneHeadAnyArgs)


(***************************************************************************)
(* C19                                                                     *)
(***************************************************************************)
\* where the statements of the properties of e stand in E, each after the
\* one before; -1 from the first that does not
PropertyPositions(E, e) ==
    LET PosUpTo[k \in 0..Len(e.properties)] ==
            IF k = 0 THEN 0
            ELSE IF PosUpTo[k - 1] < 0 THEN -1
            ELSE Let({q \in Occurrences(E, PropertyStatement(e.properties[k], <<"_","_">>)) :
                         q > PosUpTo[k - 1]},
                     LAMBDA occ : IF occ = {} THEN -1 ELSE MinOf(occ))
    IN [k \in 1..Len(e.properties) |-> PosUpTo[k]]

Computations(E) == Occurrences(E, <<"S","u","r","p","l","u","s",".","S","(","f","u","n","c","t","i","o","n"," ","(">>)

\* the computation that opens last before position p
OpenedBefore(E, p) == MaxOf({c \in Computations(E) : c < p})

\* the statements of ps are in one computation
OneComputation(E, ps) ==
    /\ \A k \in 1..Len(ps) : ps[k] > 0
    /\ \E c \in Computations(E) : c < ps[1]
    /\ \A c \in Computations(E) : c < ps[1] \/ c > ps[Len(ps)]

\* where the children of the top element stand: the statements that create
\* a node in __, and the computations other than the one of its properties
ChildPositions(E, ps) ==
    Occurrences(E, <<","," ","_","_",")">>) \cup (Computations(E) \ {OpenedBefore(E, ps[1])})

PropertiesThenOrder(E, e, nl, ps, ChildrenPlaced(_, _)) ==
    /\ \A k \in 1..Len(e.properties) :
          ~InlineIn(E, PropertyStatement(e.properties[k], <<"_","_">>), nl)
    /\ OneComputation(E, ps)
    /\ \A q \in ChildPositions(E, ps) : ChildrenPlaced(q, ps)

ChildBefore(q, ps) == q < ps[1]
ChildAfter(q, ps) == q > ps[Len(ps)]

DynamicTop ==
    /\ OneElementCompiled
    /\ ~IsComponent(TopElement(ast2))
    /\ DynamicBy(TopElement(ast2), LoneHead)

\* C19: for a dynamic Html element every property statement, in source
\* order, stands in one and the same computation and none in the body of
\* the IIFE; the statements that create its children, and the computations
\* of its children, all stand before that computation.
C19_OneComputationAfterChildren ==
    DynamicTop
    => PropertiesThenOrder(TopCode, TopElement(ast2),
            <<"\r","\n">> \o IndentOf(TextBefore(ast2)),
            PropertyPositions(TopCode, TopElement(ast2)), ChildBefore)

\* a dynamic element with an insert and an element for children
C19_Witness ==
    /\ DynamicTop
    /\ str = <<"l","e","t"," ","x"," ","="," ","<","d","i","v"," ","t","=","{","g","(",")","}"," ","u","=","{","v","}",">","{","y","}","<","b","/",">","<","/","d","i","v",">",";">>
    /\ Contains(code, <<"_","_","b","2"," ","="," ","S","u","r","p","l","u","s",".","c","r","e","a","t","e","E","l","e","m","e","n","t","(","'","b","'",","," ","_","_",")">>)
    /\ \E p \in Occurrences(code, <<"S","u","r","p","l","u","s",".","i","n","s","e","r","t","(","r","a","n","g","e",","," ","y",")">>) :
       \E q \in Occurrences(code, <<"_","_",".","t"," ","="," ","g","(",")",";","\r","\n"," "," "," "," "," "," "," "," ","_","_",".","u"," ","="," ","v",";">>) : p < q

\* C19 as stated: the same, with the children after the computation.
C19_AsStated ==
    DynamicTop
    => PropertiesThenOrder(TopCode, TopElement(ast2),
            <<"\r","\n">> \o IndentOf(TextBefore(ast2)),
            PropertyPositions(TopCode, TopElement(ast2)), ChildAfter)


(***************************************************************************)
(* C20                                                                     *)
(***************************************************************************)
MixinIndexes(e) ==
    {k \in 1..Len(e.properties) : e.properties[k].kind = "Mixin"}

\* the computation takes __state and ends by returning the state of the
\* spread of the last Mixin
ReturnsLastState(E, e, nl) ==
    Let(e.properties[MaxOf(MixinIndexes(e))], LAMBDA last :
        /\ Contains(E, <<"S","u","r","p","l","u","s",".","S","(","f","u","n","c","t","i","o","n"," ","(","_","_","s","t","a","t","e",")"," ","{">>)
        /\ IF MaxOf(MixinIndexes(e)) = Len(e.properties)
           THEN \/ Contains(E, <<"{"," ","r","e","t","u","r","n"," ">> \o PropertyStatement(last, <<"_","_">>)
                                \o <<"_","_","s","t","a","t","e",")",";"," ","}",")",";">>)
                \/ Contains(E, nl \o <<" "," "," "," "," "," "," "," ","r","e","t","u","r","n"," ">>
                                \o PropertyStatement(last, <<"_","_">>)
                                \o <<"_","_","s","t","a","t","e",")",";">> \o nl \o <<" "," "," "," "," "," "," "," ","}",")",";">>)
           ELSE /\ Contains(E, nl \o <<" "," "," "," "," "," "," "," ","_","_","s","t","a","t","e"," ","="," ">>
                                \o PropertyStatement(last, <<"_","_">>)
                                \o <<"_","_","s","t","a","t","e",")",";">> \o nl)
                /\ Contains(E, nl \o <<" "," "," "," "," "," "," "," ","r","e","t","u","r","n"," ","_","_","s","t","a","t","e">>
                               \o nl \o <<" "," "," "," "," "," "," "," ","}",")",";">>))

\* the state argument of the spread call whose element argument ends at q
StateArgAt(E, q) ==
    SubSeq(E, q + Len(<<","," ","_","_",","," ">>),
           MinOf({r \in q..Len(E) : E[r] = ")"}) - 1)

\* the spread calls on the top element each thread a state of their own
DistinctStates(E) ==
    \A p, q \in Occurrences(E, <<","," ","_","_",","," ">>) :
        p # q => StateArgAt(E, p) # StateArgAt(E, q)

MixinTop ==
    /\ OneElementCompiled
    /\ ~IsComponent(TopElement(ast2))
    /\ MixinIndexes(TopElement(ast2)) # {}

\* the computation of every element with a Mixin takes __state and returns
\* the last spread's state
C20_ReturnsLastState ==
    MixinTop
    => ReturnsLastState(TopCode, TopElement(ast2),
                        <<"\r","\n">> \o IndentOf(TextBefore(ast2)))

\* C20 as stated: the computation of an element with a Mixin takes __state
\* and returns the state of the last Mixin's spread, and the spread of
\* every Mixin threads a state variable that no other Mixin uses.
C20_AsStated ==
    MixinTop
    => /\ ReturnsLastState(TopCode, TopElement(ast2),
                           <<"\r","\n">> \o IndentOf(TextBefore(ast2)))
       /\ DistinctStates(TopCode)


(***************************************************************************)
(* C21                                                                     *)
(***************************************************************************)
\* the identifiers an IIFE declares: what stands between its var and the
\* semicolon that follows, cut at the commas
DeclaredIds(E) ==
    Let(MinOf(Occurrences(E, <<"v","a","r"," ">>)) + Len(<<"v","a","r"," ">>), LAMBDA p :
        Let(SplitOn(SubSeq(E, p, MinOf({q \in p..Len(E) : E[q] = ";"}) - 1),
                    ",", 1), LAMBDA ids :
            [k \in 1..Len(ids) |->
                IF k = 1 THEN ids[k] ELSE SubSeq(ids[k], 2, Len(ids[k]))]))

HtmlTop ==
    /\ OneElementCompiled
    /\ ~IsComponent(TopElement(ast2))
    /\ TopElement(ast2).properties # <<>> \/ TopElement(ast2).content # <<>>

\* C21 as stated: the identifiers in the var list of a generated IIFE are
\* pairwise distinct, and the first is __.
C21_AsStated ==
    HtmlTop
    => /\ DeclaredIds(TopCode)[1] = <<"_","_">>
       /\ \A i, j \in 1..Len(DeclaredIds(TopCode)) :
             i # j => DeclaredIds(TopCode)[i] # DeclaredIds(TopCode)[j]


(***************************************************************************)
(* C22                                                                     *)
(***************************************************************************)
InsertIndexes(e) ==
    {k \in 1..Len(e.content) : e.content[k].kind = "HtmlInsert"}
\* the children of the root that get an identifier and a creation
\* statement of their own: inserts and Html elements
CreatedIndexes(e) ==
    {k \in 1..Len(e.content) :
        \/ e.content[k].kind = "HtmlInsert"
        \/ e.content[k].kind = "HtmlElement" /\ ~IsComponent(e.content[k])}

InsertId(k) == <<"_","_","i","n","s","e","r","t">> \o NumStr(k)

\* the statement that creates child k of the root
CreationStatement(e, k) ==
    IF e.content[k].kind = "HtmlInsert"
    THEN InsertId(k) \o <<" ","="," ","S","u","r","p","l","u","s",".","c","r","e","a","t","e","T","e","x","t","N","o","d","e","(","'","'",","," ","_","_",")">>
    ELSE <<"_","_">> \o e.content[k].tag \o NumStr(k)
         \o <<" ","="," ","S","u","r","p","l","u","s",".","c","r","e","a","t","e","E","l","e","m","e","n","t","(","'">> \o e.content[k].tag \o <<"'",","," ","_","_",")">>

\* the computation of the insert at k, its body given
InsertComputation(e, k, call) ==
    <<"S","u","r","p","l","u","s",".","S","(","f","u","n","c","t","i","o","n"," ","(","r","a","n","g","e",")"," ","{"," ">> \o call
    \o <<"S","u","r","p","l","u","s",".","i","n","s","e","r","t","(","r","a","n","g","e",","," ">> \o compileSegments(e.content[k].code, opts)
    \o <<")",";"," ","}",","," ","{"," ","s","t","a","r","t",":"," ">> \o InsertId(k) \o <<","," ","e","n","d",":"," ">> \o InsertId(k)
    \o <<" ","}",")",";">>

OnePlace(E, lit) == Cardinality(Occurrences(E, lit)) = 1

InsertsEmitted(E, e, nl, call) ==
    /\ \A k \in InsertIndexes(e) :
          /\ Cardinality({i \in 1..Len(DeclaredIds(E)) :
                             DeclaredIds(E)[i] = InsertId(k)}) = 1
          /\ OnePlace(E, nl \o <<" "," "," "," ">> \o CreationStatement(e, k) \o nl)
          /\ OnePlace(E, InsertComputation(e, k, call))
          /\ Cardinality(Occurrences(E, <<","," ","e","n","d",":"," ">> \o InsertId(k) \o <<" ","}">>)) = 1
    /\ \A k \in CreatedIndexes(e) :
          /\ OnePlace(E, CreationStatement(e, k))
          /\ MinOf(Occurrences(E, CreationStatement(e, k)))
                > MinOf(Occurrences(E, <<"_","_"," ","="," ","S","u","r","p","l","u","s",".","c","r","e","a","t","e","R","o","o","t","E","l","e","m","e","n","t","(">>))
          /\ \A c \in Computations(E) :
                MinOf(Occurrences(E, CreationStatement(e, k))) < c
          /\ \A j \in CreatedIndexes(e) :
                j < k => MinOf(Occurrences(E, CreationStatement(e, j)))
                            < MinOf(Occurrences(E, CreationStatement(e, k)))

InsertTop ==
    /\ OneElementCompiled
    /\ ~IsComponent(TopElement(ast2))
    /\ InsertIndexes(TopElement(ast2)) # {}

\* C22: for every Insert child of an Html element there is one insert id in
\* the var list, one statement id = Surplus.createTextNode('', parent)
\* among the creation statements, in child order, after the creation of
\* the parent and before every computation, and one computation
\* Surplus.S(function (range) { return Surplus.insert(range, expr); },
\* { start: id, end: id }) whose body returns that one insert call.
C22_InsertEmitted ==
    InsertTop
    => InsertsEmitted(TopCode, TopElement(ast2),
                      <<"\r","\n">> \o IndentOf(TextBefore(ast2)), <<"r","e","t","u","r","n"," ">>)

\* an insert after an element, under an indented root
C22_Witness ==
    /\ InsertTop
    /\ IndentOf(TextBefore(ast2)) = <<" "," ">>
    /\ TopElement(ast2).content[1].kind = "HtmlElement"
    /\ 2 \in InsertIndexes(TopElement(ast2))
    /\ Contains(code, <<"_","_","i","n","s","e","r","t","2"," ","="," ","S","u","r","p","l","u","s",".","c","r","e","a","t","e","T","e","x","t","N","o","d","e","(","'","'",","," ","_","_",")">>)
    /\ Contains(code, <<"{"," ","r","e","t","u","r","n"," ","S","u","r","p","l","u","s",".","i","n","s","e","r","t","(","r","a","n","g","e",","," ","y",")",";"," ","}",","," ","{"," ","s","t","a","r","t",":"," ","_","_","i","n","s","e","r","t","2",","," ","e","n","d",":"," ","_","_","i","n","s","e","r","t","2"," ","}",")",";">>)

\* C22 as stated: the same, the body of the computation being the insert
\* call alone.
C22_AsStated ==
    InsertTop
    => InsertsEmitted(TopCode, TopElement(ast2),
                      <<"\r","\n">> \o IndentOf(TextBefore(ast2)), <<>>)


(***************************************************************************)
(* C23                                                                     *)
(***************************************************************************)
Base64Alphabet ==
    <<"A","B","C","D","E","F","G","H","I","J","K","L","M","N","O","P","Q","R","S","T","U","V","W","X","Y","Z","a","b","c","d","e","f","g","h","i","j","k","l","m","n","o","p","q","r","s","t","u","v","w","x","y","z","0","1","2","3","4","5","6","7","8","9","+","/">>
Base64Value(c) == (CHOOSE i \in 1..64 : Base64Alphabet[i] = c) - 1

\* n < 0 ? (-n << 1) | 1 : n << 1
SignEncoded(n) == IF n < 0 THEN 2 * (-n) + 1 ELSE 2 * n
\* the number of base-32 digits of u
Digits32(u) == MinOf({d \in 1..6 : u < 32^d})
\* digit k of u in base 32, the least significant being digit 1
Digit32(u, k) == (u \div 32^(k - 1)) % 32

\* a standard Base64 VLQ, decoded: five bits a character, the least
\* significant first, the sixth bit set on all but the last, the sign in
\* the lowest bit of the sum
RECURSIVE VlqSum(_, _)
VlqSum(t, k) ==
    IF k > Len(t) THEN 0
    ELSE (Base64Value(t[k]) % 32) * 32^(k - 1) + VlqSum(t, k + 1)
WellFormedVlq(t) ==
    /\ Len(t) > 0
    /\ \A k \in 1..Len(t) : (Base64Value(t[k]) >= 32) <=> (k < Len(t))
VlqDecoded(t) ==
    IF VlqSum(t, 1) % 2 = 1 THEN -(VlqSum(t, 1) \div 2) ELSE VlqSum(t, 1) \div 2

\* C23: for |n| < 2^20, vlq(n) has one character for each base-32 digit of
\* the sign-encoded value, the least significant first, every one but the
\* last from g..z0..9+/ and the last from A..Za..f; it is not empty,
\* vlq(0) is "A", and decoded as a standard Base64 VLQ it gives n back.
C23_Vlq ==
    pc = "encoded"
    => /\ Len(enc.str) = Digits32(SignEncoded(enc.num))
       /\ Len(enc.str) > 0
       /\ \A k \in 1..Len(enc.str) :
             enc.str[k] =
                IF k < Len(enc.str)
                THEN <<"g","h","i","j","k","l","m","n","o","p","q","r","s","t","u","v","w","x","y","z","0","1","2","3","4","5","6","7","8","9","+","/">>[Digit32(SignEncoded(enc.num), k) + 1]
                ELSE <<"A","B","C","D","E","F","G","H","I","J","K","L","M","N","O","P","Q","R","S","T","U","V","W","X","Y","Z","a","b","c","d","e","f">>[Digit32(SignEncoded(enc.num), k) + 1]
       /\ enc.num = 0 => enc.str = <<"A">>
       /\ WellFormedVlq(enc.str)
       /\ VlqDecoded(enc.str) = enc.num

\* a negative number of four digits: -16385 is 32771 sign-encoded, the
\* digits 1, 0, 0, 3 from the most significant
C23_Witness ==
    /\ pc = "encoded"
    /\ enc.num = -16385
    /\ enc.str = <<"j","g","g","B">>


(***************************************************************************)
(* C24                                                                     *)
(***************************************************************************)
DigitChar(c) == c \in {"0", "1", "2", "3", "4", "5", "6", "7", "8", "9"}

\* the length of the comment /*line,col*/ that starts at p, 0 when none does
MarkCommentAt(t, p) ==
    IF ~StartsAt(t, p, <<"/","*">>) THEN 0
    ELSE Let(PrefixLen(t, p + 2, DigitChar), LAMBDA a :
         Let(PrefixLen(t, p + 3 + a, DigitChar), LAMBDA b :
            IF a > 0 /\ At(t, p + 2 + a) = "," /\ b > 0
               /\ StartsAt(t, p + 3 + a + b, <<"*","/">>)
            THEN a + b + 5 ELSE 0))

\* t from p on, without the comments that replaced the location marks
RECURSIVE WithoutMarkComments(_, _)
WithoutMarkComments(t, p) ==
    Let({q \in p..Len(t) : MarkCommentAt(t, q) > 0}, LAMBDA ms :
        IF ms = {} THEN SubSeq(t, p, Len(t))
        ELSE SubSeq(t, p, MinOf(ms) - 1)
             \o WithoutMarkComments(t, MinOf(ms) + MarkCommentAt(t, MinOf(ms))))

\* what preprocess generates for the same AST with no source map asked
CodeWithoutSourcemap == compile(ast2, [opts EXCEPT !.sourcemap = ""]).code

\* C24 as stated: the text returned with sourcemap 'extract', less the
\* comments of the location marks, is the text generated with no source
\* map, with as many computations.
C24_AsStated ==
    pc = "returned" /\ opts.sourcemap = "extract"
    => Let(CodeWithoutSourcemap, LAMBDA plain :
          /\ Cardinality(Occurrences(out.src, <<"S","u","r","p","l","u","s",".","S","(">>))
                = Cardinality(Occurrences(plain, <<"S","u","r","p","l","u","s",".","S","(">>))
          /\ WithoutMarkComments(out.src, 1) = plain)


(***************************************************************************)
(* C25                                                                     *)
(***************************************************************************)
\* the characters a parser state has behind it: the tokens before the
\* current one, and what was split off the current one
Consumed(s) ==
    Len(Flatten(SubSeq(s.TOKS, 1, IF s.i - 1 < Len(s.TOKS) THEN s.i - 1
                                  ELSE Len(s.TOKS))))
    + (IF s.i <= Len(s.TOKS) THEN Len(s.TOKS[s.i]) - Len(s.TOK) ELSE 0)

ParserEnded(s) ==
    /\ s.TOKS = toks
    /\ Flatten(toks) = str
    /\ s.POS = Consumed(s)
    /\ s.EOF <=> s.i > Len(toks)
    /\ pc = "failed" <=> s.err.msg # ""
    /\ pc = "failed" => s.err = err /\ s.POS <= Len(str)
    /\ pc = "parsed" => s.EOF /\ s.TOK = <<>> /\ s.POS = Len(str)

\* C25: parse ends on every token sequence of both dialects, with an AST
\* once every token is consumed or with an error; where it ends, POS is
\* the number of characters of the input consumed so far. (Which branch a
\* loop of the parser takes depends on the current token alone, so a loop
\* that ends has consumed input in every iteration.)
C25_ParseEnds ==
    pc \notin {"start", "tokenized", "vlq", "encoded"}
    => ParserEnded(parse(toks, opts).s)

\* the text with every construct, parsed to its end in its dialect
C25_Witness ==
    /\ pc = "parsed"
    /\ str = Specimen(opts.jsx)
    /\ parse(toks, opts).s.POS = Len(str)
    /\ parse(toks, opts).s.LINE = 3


(***************************************************************************)
(* C26                                                                     *)
(***************************************************************************)
KeysOf(o) == { o[k].name : k \in 1..Len(o) }
ValueOf(o, n) == o[CHOOSE k \in 1..Len(o) : o[k].name = n].value
NoKeyTwice(o) == \A a, b \in 1..Len(o) : o[a].name = o[b].name => a = b

\* the keys of the object other than style, and whether it has style
OtherKeys(obj) ==
    { k \in 1..Len(obj.own) : obj.own[k].name # <<"s","t","y","l","e">> }
HasStyle(obj) == \E k \in 1..Len(obj.own) : obj.own[k].name = <<"s","t","y","l","e">>

\* the last of the other keys the compiler would give the name n
LastNamed(obj, n) ==
    MaxOf({ k \in OtherKeys(obj) : translateJSXPropertyName(obj.own[k].name) = n })

\* the node after spread(node, obj, svg) of a node that is not svg
SpreadOnHtml(node, obj, after) ==
    /\ KeysOf(after.props) \cup KeysOf(after.attrs)
         = { translateJSXPropertyName(obj.own[k].name) : k \in OtherKeys(obj) }
    /\ \A n \in KeysOf(after.props) \cup KeysOf(after.attrs) :
          IF n \in node.known
          THEN /\ n \notin KeysOf(after.attrs)
               /\ ValueOf(after.props, n) = obj.own[LastNamed(obj, n)].value
          ELSE /\ n \notin KeysOf(after.props)
               /\ ValueOf(after.attrs, n) = obj.own[LastNamed(obj, n)].value

\* the node after spread(node, obj, svg) of an svg node
SpreadOnSvg(node, obj, after) ==
    /\ after.props = node.props
    /\ \A j \in 1..Len(after.attrs) :
          \E k \in OtherKeys(obj) : after.attrs[j].value = obj.own[k].value
    /\ OtherKeys(obj) # {}
       => \E j \in 1..Len(after.attrs) :
             after.attrs[j].value = obj.own[MaxOf(OtherKeys(obj))].value

\* node.style after the call: the keys of obj.style set, the others kept
StyleMerged(node, obj, after) ==
    /\ KeysOf(after.style)
         = KeysOf(node.style) \cup (IF HasStyle(obj) THEN KeysOf(obj.style) ELSE {})
    /\ \A k \in 1..Len(node.style) : after.style[k].name = node.style[k].name
    /\ \A n \in KeysOf(after.style) :
          ValueOf(after.style, n)
            = IF HasStyle(obj) /\ n \in KeysOf(obj.style)
              THEN ValueOf(obj.style, n) ELSE ValueOf(node.style, n)

\* C26: spread(node, obj, svg) sets every own key of obj once: a style key
\* is merged into node.style key by key, the style keys absent from the
\* object kept; every other key is set, on a node that is not svg, under
\* the name the compiler gives a DynamicProperty of that name, as a field
\* when the node has that name and as an attribute when not; on an svg node
\* as an attribute.
C26_SpreadNames ==
    pc = "spread"
    => /\ rt.element.known = rt.before.known
       /\ rt.element.own = rt.before.own
       /\ NoKeyTwice(rt.element.props)
       /\ NoKeyTwice(rt.element.attrs)
       /\ NoKeyTwice(rt.element.style)
       /\ StyleMerged(rt.before, rt.given, rt.element)
       /\ IF Truthy(rt.svg)
          THEN SpreadOnSvg(rt.before, rt.given, rt.element)
          ELSE SpreadOnHtml(rt.before, rt.given, rt.element)
       /\ rt.mixin = rt.given
       /\ \A n \in KeyNames :
             translateJSXPropertyName_rt(n, False) = translateJSXPropertyName(n)

\* { onClick, style: { color } } spread on a div that had color and width
C26_Witness ==
    /\ pc = "spread"
    /\ ~Truthy(rt.svg)
    /\ rt.given.own = <<[name |-> <<"o","n","C","l","i","c","k">>, value |-> "v1"],
                        [name |-> <<"s","t","y","l","e">>, value |-> "v2"]>>
    /\ rt.element.props = <<[name |-> <<"o","n","c","l","i","c","k">>, value |-> "v1"]>>
    /\ rt.element.attrs = <<>>
    /\ rt.before.style = <<[name |-> <<"c","o","l","o","r">>, value |-> "blue"],
                           [name |-> <<"w","i","d","t","h">>, value |-> "1px"]>>
    /\ rt.element.style = <<[name |-> <<"c","o","l","o","r">>, value |-> "red"],
                            [name |-> <<"w","i","d","t","h">>, value |-> "1px"]>>

====
